---------------------------- MODULE Spec2Model ----------------------------
(***************************************************************************)
(* AuraSync audio analysis: the capture hook (useAudioAnalyzer), the       *)
(* analysis worker (audio.worker.ts) with its module-level engine state,   *)
(* and the analyzers it calls (BPMDetector, YINPitchDetector,              *)
(* TimbreAnalyzer).                                                        *)
(*                                                                         *)
(* Numbers: the code computes in IEEE doubles.  Here every quantity of     *)
(* the range [0,1] is a fixed-point integer with Scale units per 1.0,      *)
(* products and quotients round toward minus infinity.  Spectrum and       *)
(* waveform samples are bytes 0..255 as in the Uint8Arrays.  A division    *)
(* by zero is not rounded away: it yields a tagged NaN / Infinity.         *)
(***************************************************************************)
EXTENDS Integers, Sequences, FiniteSets, TLC

VARIABLES
    audioSrc,     \* App: audioRef.current.src, the file loaded in the <audio> element (0: none)
    audioSource,  \* the element handed to useAudioAnalyzer at the last render (0: undefined)
    hook,         \* useAudioAnalyzer: audioData state and the refs
    workers,      \* ids of the Worker objects that were created and not terminated
    eng,          \* audio.worker.ts module-level state of the worker in workerRef
    inbox,        \* messages posted to that worker and not yet handled
    outbox,       \* responses posted by that worker and not yet delivered to the hook
    clock,        \* milliseconds since page load (performance.now / rAF timestamps)
    obs,          \* observation of the last step (what was asked, what came back)
    eng2,         \* engine state of a second, independent run (replay comparison)
    rhythmic      \* the fields of a RhythmicEngine instance

vars == <<audioSrc, audioSource, hook, workers, eng, inbox, outbox, clock, obs, eng2, rhythmic>>

---------------------------------------------------------------------------
(* Bounds of the model *)

Scale == 10000         \* fixed-point units per 1.0
MaxCalls == 6          \* calls made in the single-function specifications
MaxClock == 80         \* largest page clock reading, ms

---------------------------------------------------------------------------
(* Arithmetic helpers *)

Min2(a, b) == IF a < b THEN a ELSE b
Max2(a, b) == IF a > b THEN a ELSE b

\* n/d as a fixed-point number
Frac(n, d) == (n * Scale) \div d
\* product and quotient of two fixed-point numbers
Mul(a, b) == (a * b) \div Scale
Div(a, b) == (a * Scale) \div b

RECURSIVE SumSeq(_)
SumSeq(s) == IF s = <<>> THEN 0 ELSE Head(s) + SumSeq(Tail(s))

\* Array.prototype.shift followed by push on a fixed-length history
ShiftPush(h, v) == Append(Tail(h), v)

\* Mutant: push without the shift.
PushCapped_NoShift(h, v, cap) == Append(h, v)

\* push, then shift when longer than cap
PushCapped(h, v, cap) ==
    LET h1 == Append(h, v) IN IF Len(h1) > cap THEN Tail(h1) ELSE h1

---------------------------------------------------------------------------
(* Worker configuration *)

ENVELOPE_CONFIG ==
    [ minDecay     |-> Frac(2, 1000),
      maxDecay     |-> Frac(1, 1000),
      minThreshold |-> Frac(2, 100),
      adaptiveRate |-> Frac(1, 10) ]

DROP_CONFIG ==
    [ decay     |-> Frac(95, 100),
      threshold |-> Frac(5, 10),
      cooldown  |-> 500 ]

TRANSIENT_CONFIG ==
    [ bass    |-> [threshold |-> Frac(8, 100),  multiplier |-> Frac(18, 10), decay |-> Frac(85, 100)],
      mid     |-> [threshold |-> Frac(7, 100),  multiplier |-> Frac(20, 10), decay |-> Frac(90, 100)],
      treble  |-> [threshold |-> Frac(6, 100),  multiplier |-> Frac(22, 10), decay |-> Frac(92, 100)],
      overall |-> [threshold |-> Frac(12, 100), multiplier |-> Frac(17, 10), decay |-> Frac(88, 100)] ]

InitEnvelope == [min |-> Frac(1, 10), max |-> Frac(2, 10)]

---------------------------------------------------------------------------
(* DynamicsNormalizer *)

\* Mutant: the final clamp of max forgets the min + 0.1 floor.
calculateDynamicValue_NoFloor(value, envelope) ==
    LET c == ENVELOPE_CONFIG
        max1 == IF value > envelope.max
                THEN Mul(value, Scale - c.adaptiveRate) + Mul(envelope.max, c.adaptiveRate)
                ELSE Mul(envelope.max, Scale - c.maxDecay)
        min1 == IF value < envelope.min
                THEN Mul(value, Scale - c.adaptiveRate) + Mul(envelope.min, c.adaptiveRate)
                ELSE Mul(envelope.min, Scale + c.minDecay) + c.minThreshold
        min2 == Max2(0, Min2(min1, Frac(9, 10)))
        max2 == Min2(max1, Scale)
        range == max2 - min2
    IN  [ envelope |-> [min |-> min2, max |-> max2],
          value    |-> IF range > Frac(1, 100)
                       THEN Max2(0, Min2(Scale, Div(value - min2, range)))
                       ELSE value ]

\* calculateDynamicValue: returns the updated envelope and the normalized value
calculateDynamicValue(value, envelope) ==
    LET c == ENVELOPE_CONFIG
        max1 == IF value > envelope.max
                THEN Mul(value, Scale - c.adaptiveRate) + Mul(envelope.max, c.adaptiveRate)
                ELSE Mul(envelope.max, Scale - c.maxDecay)
        min1 == IF value < envelope.min
                THEN Mul(value, Scale - c.adaptiveRate) + Mul(envelope.min, c.adaptiveRate)
                ELSE Mul(envelope.min, Scale + c.minDecay) + c.minThreshold
        min2 == Max2(0, Min2(min1, Frac(9, 10)))
        max2 == Max2(min2 + Frac(1, 10), Min2(max1, Scale))
        range == max2 - min2
    IN  [ envelope |-> [min |-> min2, max |-> max2],
          value    |-> IF range > Frac(1, 100)
                       THEN Max2(0, Min2(Scale, Div(value - min2, range)))
                       ELSE value ]

\* Mutant: the cooldown test is dropped from the trigger condition.
detectDrop_NoCooldown(normalizedEnergy, now, st) ==
    LET surge == normalizedEnergy - st.prevNormalizedEnergy
        fires == surge > DROP_CONFIG.threshold
        di    == IF fires THEN Min2(Scale, surge) ELSE st.dropIntensity
    IN  [ prevNormalizedEnergy |-> normalizedEnergy,
          dropIntensity        |-> Mul(di, DROP_CONFIG.decay),
          lastDropTime         |-> IF fires THEN now ELSE st.lastDropTime,
          triggered            |-> fires ]

\* detectDrop: now is the Date.now() reading taken at entry; st holds
\* prevNormalizedEnergy, dropIntensity, lastDropTime.  The returned
\* dropIntensity is both the stored and the reported value.
detectDrop(normalizedEnergy, now, st) ==
    LET surge == normalizedEnergy - st.prevNormalizedEnergy
        fires == surge > DROP_CONFIG.threshold /\ now - st.lastDropTime > DROP_CONFIG.cooldown
        di    == IF fires THEN Min2(Scale, surge) ELSE st.dropIntensity
    IN  [ prevNormalizedEnergy |-> normalizedEnergy,
          dropIntensity        |-> Mul(di, DROP_CONFIG.decay),
          lastDropTime         |-> IF fires THEN now ELSE st.lastDropTime,
          triggered            |-> fires ]

\* detectBandTransient firing when either threshold is exceeded
detectBandTransient_EitherThreshold(value, band, state) ==
    LET config == TRANSIENT_CONFIG[band]
        history == ShiftPush(state.history, value)
        avgHistory == SumSeq(history) \div Len(history)
        adaptiveThreshold == Max2(config.threshold, Mul(avgHistory, config.multiplier))
        isTransient == value > adaptiveThreshold \/ value > Mul(state.value, config.multiplier)
    IN  [ state |-> [ value   |-> Mul(state.value, config.decay) + Mul(value, Scale - config.decay),
                      history |-> history ],
          isTransient |-> isTransient ]

\* detectBandTransient: state is {value, history}
detectBandTransient(value, band, state) ==
    LET config == TRANSIENT_CONFIG[band]
        history == ShiftPush(state.history, value)
        avgHistory == SumSeq(history) \div Len(history)
        adaptiveThreshold == Max2(config.threshold, Mul(avgHistory, config.multiplier))
        isTransient == value > adaptiveThreshold /\ value > Mul(state.value, config.multiplier)
    IN  [ state |-> [ value   |-> Mul(state.value, config.decay) + Mul(value, Scale - config.decay),
                      history |-> history ],
          isTransient |-> isTransient ]

\* detectTransients: ts is transientState
detectTransients(currentBands, energy, ts) ==
    LET b == detectBandTransient(currentBands.bass, "bass", ts.bass)
        m == detectBandTransient(currentBands.mid, "mid", ts.mid)
        t == detectBandTransient(currentBands.treble, "treble", ts.treble)
        o == detectBandTransient(energy, "overall", ts.overall)
    IN  [ transientState |-> [bass |-> b.state, mid |-> m.state, treble |-> t.state, overall |-> o.state],
          transients |-> [bass |-> b.isTransient, mid |-> m.isTransient,
                          treble |-> t.isTransient, overall |-> o.isTransient] ]

---------------------------------------------------------------------------
(* Numbers that are not numbers.  JavaScript's NaN and the infinities are  *)
(* carried as tagged values far outside every range the model computes.    *)

NaN == 0 - 1000000007
PosInfinity == 1000000007
NegInfinity == 0 - 1000000006

IsFinite(x) == x # NaN /\ x # PosInfinity /\ x # NegInfinity

\* JavaScript's a / b on integers a, b, the quotient in fixed point
JsDivide(a, b) ==
    IF b = 0
    THEN IF a = 0 THEN NaN ELSE IF a > 0 THEN PosInfinity ELSE NegInfinity
    ELSE LET n == IF b > 0 THEN a ELSE 0 - a
             d == IF b > 0 THEN b ELSE 0 - b
         IN  IF n < 200000 /\ n > 0 - 200000 THEN (n * Scale) \div d
             ELSE ((n \div 1000) * Scale) \div Max2(1, d \div 1000)

\* a < b as JavaScript evaluates it: false when either side is NaN
JsLess(a, b) == a # NaN /\ b # NaN /\ a < b

RECURSIVE ISqrtIter(_, _)
ISqrtIter(n, x) ==
    LET y == (x + n \div x) \div 2
    IN  IF y >= x THEN x ELSE ISqrtIter(n, y)

\* floor of the square root
ISqrt(n) == IF n <= 0 THEN 0 ELSE ISqrtIter(n, n)

\* a/b in fixed point for 0 <= a <= b, keeping the product within 32 bits
Ratio(a, b) ==
    IF b = 0 THEN 0
    ELSE IF a < 200000 THEN (a * Scale) \div b
    ELSE ((a \div 1000) * Scale) \div Max2(1, b \div 1000)

RECURSIVE Insert(_, _)
Insert(v, s) ==
    IF s = <<>> THEN <<v>>
    ELSE IF v <= Head(s) THEN <<v>> \o s
    ELSE <<Head(s)>> \o Insert(v, Tail(s))

RECURSIVE SortAscending(_)
\* [...arr].sort((a, b) => a - b)
SortAscending(s) == IF s = <<>> THEN <<>> ELSE Insert(Head(s), SortAscending(Tail(s)))

\* calculateMedian (also the median of getStableBPM and getConfidence)
calculateMedian(arr) ==
    IF Len(arr) = 0 THEN 0
    ELSE LET sorted == SortAscending(arr)
             mid == Len(arr) \div 2
         IN  IF Len(arr) % 2 # 0 THEN sorted[mid + 1]
             ELSE (sorted[mid] + sorted[mid + 1]) \div 2

---------------------------------------------------------------------------
(* SpectralAnalyzer *)

NBins == 16            \* analyser.frequencyBinCount: length of the spectrum

\* prevFrequencies is allocated with half the bins the capture hook sends
\* (Float32Array(512) against frequencyBinCount 1024): a read past its end
\* is undefined, a write past its end is dropped.
PREV_FREQUENCIES_LENGTH == NBins \div 2

Bins == 0 .. (NBins - 1)

Nyquist(sampleRate) == sampleRate \div 2

\* i * binSize in Hz (binSize = nyquist / frequencies.length)
BinFreq(i, sampleRate) == (i * Nyquist(sampleRate)) \div NBins

\* Math.floor(hz / binSize)
BinOf(hz, sampleRate) == (hz * NBins) \div Nyquist(sampleRate)

\* frequencies[i] / 255
Magnitude(byte) == Frac(byte, 255)

\* A_WEIGHTING(freq), freq in Hz.  The three factors
\*   f2/(f2+20.6^2), f2/sqrt((f2+107.7^2)(f2+737.9^2)), 12194^2/(f2+12194^2)
\* are each computed in fixed point and multiplied.
A_WEIGHTING(freq) ==
    LET f2 == freq * freq
        r1 == Scale - (424 * Scale) \div (f2 + 424)
        q1 == Scale - (11599 * Scale) \div (f2 + 11599)
        q2 == Scale - (544 * Scale) \div ((f2 + 544496) \div 1000)
        r2 == ISqrt(q1 * q2)
        r3 == (1486 * Scale) \div ((f2 + 148693636) \div 100000)
    IN  Mul(Mul(r1, r2), Min2(Scale, r3))

RECURSIVE BandSums(_, _, _, _)
\* the loop of calculateBands from bin i on: adds to acc = the six sums
BandSums(i, frequencies, sampleRate, acc) ==
    IF i >= NBins THEN acc
    ELSE LET bassEnd == BinOf(250, sampleRate)
             midEnd == BinOf(4000, sampleRate)
             weight == A_WEIGHTING(BinFreq(i, sampleRate))
             wm == Mul(Magnitude(frequencies[i]), weight)
             acc1 == IF i <= bassEnd
                     THEN [acc EXCEPT !.bass = @ + wm, !.bassWeight = @ + weight]
                     ELSE IF i <= midEnd
                     THEN [acc EXCEPT !.mid = @ + wm, !.midWeight = @ + weight]
                     ELSE IF i < NBins - 1   \* freq < nyquist - binSize
                     THEN [acc EXCEPT !.treble = @ + wm, !.trebleWeight = @ + weight]
                     ELSE acc
         IN  BandSums(i + 1, frequencies, sampleRate, acc1)

calculateBands(frequencies, sampleRate) ==
    LET s == BandSums(1, frequencies, sampleRate,
                      [bass |-> 0, mid |-> 0, treble |-> 0,
                       bassWeight |-> 0, midWeight |-> 0, trebleWeight |-> 0])
    IN  [ bass   |-> IF s.bassWeight > 0 THEN Ratio(s.bass, s.bassWeight) ELSE 0,
          mid    |-> IF s.midWeight > 0 THEN Ratio(s.mid, s.midWeight) ELSE 0,
          treble |-> IF s.trebleWeight > 0 THEN Ratio(s.treble, s.trebleWeight) ELSE 0 ]

RECURSIVE SpectralChanges(_, _, _)
\* the positive magnitude increases of bins i .. N-2 against prevFrequencies;
\* prevFrequencies[i] is undefined from PREV_FREQUENCIES_LENGTH on, the
\* difference is then NaN and NaN > 0 is false
SpectralChanges(i, frequencies, prevFrequencies) ==
    IF i >= NBins - 1 THEN <<>>
    ELSE LET change == IF i < PREV_FREQUENCIES_LENGTH
                       THEN Magnitude(frequencies[i]) - prevFrequencies[i]
                       ELSE NaN
             rest == SpectralChanges(i + 1, frequencies, prevFrequencies)
         IN  IF JsLess(0, change) THEN <<change>> \o rest ELSE rest

\* calculateSpectralFeatures: the flux it returns and the prevFrequencies it
\* leaves behind (centroid, spread and rolloff feed no state and no claim)
calculateSpectralFeatures(frequencies, sampleRate, prevFrequencies) ==
    LET flux == calculateMedian(SpectralChanges(1, frequencies, prevFrequencies))
    IN  [ flux |-> Min2(Scale, flux * 10),
          prevFrequencies |-> [i \in 0 .. (PREV_FREQUENCIES_LENGTH - 1) |->
                                  Magnitude(frequencies[i])] ]

\* energy of analyze: sqrt(sum of (frequencies[i]/255)^2 over 1..N-2 / (N-2))
RECURSIVE SumSquares(_, _, _)
SumSquares(f, lo, hi) ==
    IF lo > hi THEN 0 ELSE f[lo] * f[lo] + SumSquares(f, lo + 1, hi)

SpectrumEnergy(frequencies) ==
    (ISqrt((SumSquares(frequencies, 1, NBins - 2) * 100) \div (NBins - 2)) * Scale) \div 2550

RECURSIVE MaxOf(_, _, _)
MaxOf(f, lo, hi) ==
    IF lo > hi THEN 0 ELSE Max2(f[lo], MaxOf(f, lo + 1, hi))

---------------------------------------------------------------------------
(* PitchTracker: YINPitchDetector *)

\* new YINPitchDetector(sampleRate, bufferSize, threshold); yinBuffer is
\* scratch space of bufferSize/2 entries, rewritten by every full detectPitch
YINPitchDetector(sampleRate, bufferSize, threshold) ==
    [ sampleRate |-> sampleRate, bufferSize |-> bufferSize,
      threshold |-> threshold, adaptiveThreshold |-> threshold ]

\* new YINPitchDetector(): the constructor's defaults
DefaultYIN == YINPitchDetector(44100, 2048, Frac(1, 10))

\* the detector updateConfig builds
ReconfiguredYIN(sampleRate) == YINPitchDetector(sampleRate, 4096, Frac(15, 100))

\* element i of a 0-indexed array kept as a sequence
At(buf, i) == buf[i + 1]

JsLessEq(a, b) == a # NaN /\ b # NaN /\ a <= b

RECURSIVE DiffSum(_, _, _, _)
DiffSum(buf, tau, i, W) ==
    IF i >= W THEN 0
    ELSE LET delta == At(buf, i) - At(buf, i + tau)
         IN  (delta * delta) \div Scale + DiffSum(buf, tau, i + 1, W)

\* Step 1: d(tau) for tau in 0 .. W-1
calculateDifferenceFunction(buf, W) ==
    [tau \in 0 .. (W - 1) |-> DiffSum(buf, tau, 0, W)]

RECURSIVE RunningSum(_, _)
RunningSum(d, tau) == IF tau < 1 THEN 0 ELSE d[tau] + RunningSum(d, tau - 1)

\* Step 2: yinBuffer[tau] *= tau / sum.  With sum = 0 the quotient is
\* Infinity and the entry, itself 0, becomes 0 * Infinity = NaN.
calculateCumulativeMeanNormalizedDifference(d, W) ==
    [tau \in 0 .. (W - 1) |->
        IF tau = 0 THEN Scale
        ELSE IF RunningSum(d, tau) = 0 THEN NaN
        ELSE Ratio(d[tau] * tau, RunningSum(d, tau))]

RECURSIVE YinWalk(_, _, _)
YinWalk(yb, tau, W) ==
    IF tau + 1 < W /\ JsLess(yb[tau + 1], yb[tau]) THEN YinWalk(yb, tau + 1, W) ELSE tau

RECURSIVE YinScan(_, _, _, _, _, _)
YinScan(yb, tau, W, threshold, minTau, minVal) ==
    IF tau >= W
    THEN IF minTau # -1 /\ minVal < Frac(8, 10) THEN minTau ELSE -1
    ELSE IF JsLess(yb[tau], threshold) THEN YinWalk(yb, tau, W)
    ELSE IF JsLess(yb[tau], minVal) THEN YinScan(yb, tau + 1, W, threshold, tau, yb[tau])
    ELSE YinScan(yb, tau + 1, W, threshold, minTau, minVal)

\* getAbsoluteThreshold returning the first crossing, without the walk
getAbsoluteThreshold_FirstCrossing(yb, W, yin) ==
    LET threshold == IF yin.adaptiveThreshold # 0 THEN yin.adaptiveThreshold ELSE yin.threshold
        below == {tau \in 2 .. (W - 1) : JsLess(yb[tau], threshold)}
    IN  IF below # {} THEN CHOOSE tau \in below : \A u \in below : tau <= u
        ELSE YinScan(yb, 2, W, threshold, -1, 1000 * Scale)

\* Step 3
getAbsoluteThreshold(yb, W, yin) ==
    LET threshold == IF yin.adaptiveThreshold # 0 THEN yin.adaptiveThreshold ELSE yin.threshold
    IN  YinScan(yb, 2, W, threshold, -1, 1000 * Scale)

\* Step 4: betterTau in fixed point (or NaN / an infinity), and whether
\* the parabola's divisor was zero
parabolicInterpolation(yb, W, tauEstimate) ==
    LET x0 == IF tauEstimate < 1 THEN tauEstimate ELSE tauEstimate - 1
        x2 == IF tauEstimate + 1 < W THEN tauEstimate + 1 ELSE tauEstimate
        s0 == yb[x0]
        s1 == yb[tauEstimate]
        s2 == yb[x2]
        den == 2 * (2 * s1 - s2 - s0)
        shift == JsDivide(s2 - s0, den)
    IN  IF x0 = tauEstimate
        THEN [betterTau |-> IF JsLessEq(s1, s2) THEN tauEstimate * Scale ELSE x2 * Scale,
              zeroDivisor |-> FALSE]
        ELSE IF x2 = tauEstimate
        THEN [betterTau |-> IF JsLessEq(s1, s0) THEN tauEstimate * Scale ELSE x0 * Scale,
              zeroDivisor |-> FALSE]
        ELSE IF s0 = NaN \/ s1 = NaN \/ s2 = NaN
        THEN [betterTau |-> NaN, zeroDivisor |-> FALSE]
        ELSE [betterTau |-> IF IsFinite(shift) THEN tauEstimate * Scale + shift ELSE shift,
              zeroDivisor |-> den = 0]

\* setThreshold(threshold): clamped to [0.01, 0.99]
setThreshold(yin, threshold) ==
    LET t == Max2(Frac(1, 100), Min2(Frac(99, 100), threshold))
    IN  [yin EXCEPT !.threshold = t, !.adaptiveThreshold = t]

\* updateThreshold(spectralFlux, volume)
updateThreshold(yin, spectralFlux, volume) ==
    LET signalQuality == Min2(Scale, Mul(volume, Scale - spectralFlux))
    IN  [yin EXCEPT !.adaptiveThreshold = Frac(5, 100) + Mul(Frac(15, 100), Scale - signalQuality)]

\* sampleRate / betterTau in Hz
YinFrequency(sampleRate, betterTau) ==
    IF betterTau = NaN THEN NaN
    ELSE IF ~IsFinite(betterTau) THEN 0
    ELSE IF betterTau = 0 THEN PosInfinity
    ELSE IF betterTau > 0 THEN (sampleRate * Scale) \div betterTau
    ELSE 0 - ((sampleRate * Scale) \div (0 - betterTau))

\* detectPitch: frequency in Hz, probability in fixed point, and the
\* divisions by zero it evaluated on the way
detectPitch(yin, audioBuffer) ==
    IF Len(audioBuffer) < yin.bufferSize
    THEN [frequency |-> 0, probability |-> 0, zeroDiv |-> {}]
    ELSE LET W == yin.bufferSize \div 2
             d == calculateDifferenceFunction(audioBuffer, W)
             yb == calculateCumulativeMeanNormalizedDifference(d, W)
             sumZero == IF \E tau \in 1 .. (W - 1) : RunningSum(d, tau) = 0
                        THEN {"yinSum"} ELSE {}
             tauEstimate == getAbsoluteThreshold(yb, W, yin)
             interp == parabolicInterpolation(yb, W, tauEstimate)
             probability == Scale - yb[tauEstimate]
         IN  IF tauEstimate = -1
             THEN [frequency |-> 0, probability |-> 0, zeroDiv |-> sumZero]
             ELSE [frequency |-> YinFrequency(yin.sampleRate, interp.betterTau),
                   probability |-> Max2(0, Min2(Scale, probability)),
                   zeroDiv |-> sumZero \cup (IF interp.zeroDivisor THEN {"yinParabola"} ELSE {})]

---------------------------------------------------------------------------
(* Frequency to note *)

NOTE_NAMES == <<"C", "C#", "D", "D#", "E", "F", "F#", "G", "G#", "A", "A#", "B">>

\* 440 * 2^((k - 0.5)/12) in hundredths of a Hz, k = 0 .. 12: the frequencies
\* at which Math.round(12 * log2(f/440) + 69) steps from 68+k to 69+k
SEMITONE_EDGE ==
    <<42747, 45289, 47982, 50836, 53858, 57061, 60454, 64049, 67857, 71892, 76167, 80696, 85495>>

RECURSIVE RoundedMidi(_, _)
\* Math.round(12 * Math.log2(freq / 440) + 69), fc = freq in hundredths of a Hz (> 0)
RoundedMidi(fc, base) ==
    IF fc < SEMITONE_EDGE[1] THEN RoundedMidi(fc * 2, base - 12)
    ELSE IF fc >= SEMITONE_EDGE[13] THEN RoundedMidi(fc \div 2, base + 12)
    ELSE base + (CHOOSE k \in 0 .. 11 : SEMITONE_EDGE[k + 1] <= fc /\ fc < SEMITONE_EDGE[k + 2])

NoNote == [name |-> "N/A", octave |-> 0]

\* frequencyToNote(freq).note as {name, octave}; freq in Hz.  An index that
\* is NaN or negative reads NOTE_NAMES[...] as undefined.
frequencyToNote(freq) ==
    IF freq = NegInfinity \/ (IsFinite(freq) /\ freq <= 0) THEN NoNote
    ELSE IF ~IsFinite(freq) THEN [name |-> "undefined", octave |-> freq]
    ELSE LET roundedMidi == RoundedMidi(freq * 100, 69)
             \* Math.floor(roundedMidi / 12) - 1
             octave == (roundedMidi - (roundedMidi % 12)) \div 12 - 1
         IN  IF roundedMidi < 0 /\ roundedMidi % 12 # 0
             THEN [name |-> "undefined", octave |-> octave]
             ELSE [name |-> NOTE_NAMES[(roundedMidi % 12) + 1], octave |-> octave]

---------------------------------------------------------------------------
(* calculateMelodicFeatures *)

CHROMA_SMOOTHING == Frac(85, 100)

PitchClasses == 0 .. 11

ZeroChroma == [i \in PitchClasses |-> 0]

RECURSIVE MaxAbsSample(_)
\* the largest |(waveform[i] - 128) / 128|, as |waveform[i] - 128|
MaxAbsSample(waveform) ==
    IF waveform = <<>> THEN 0
    ELSE LET a == Head(waveform) - 128
         IN  Max2(IF a < 0 THEN 0 - a ELSE a, MaxAbsSample(Tail(waveform)))

\* float32Waveform: ((waveform[i] - 128) / 128) * normalizationFactor
Float32Waveform(waveform) ==
    LET maxAbs == MaxAbsSample(waveform)
    IN  [i \in 1 .. Len(waveform) |->
            IF maxAbs > 0 THEN ((waveform[i] - 128) * Scale) \div maxAbs
            ELSE ((waveform[i] - 128) * Scale) \div 128]

RECURSIVE PeakSearch(_, _, _, _, _)
\* the fallback's loop over bins i .. limit-1: first strict maximum
PeakSearch(i, limit, frequencies, maxMagnitude, maxBin) ==
    IF i >= limit THEN [maxMagnitude |-> maxMagnitude, maxBin |-> maxBin]
    ELSE IF frequencies[i] > maxMagnitude
    THEN PeakSearch(i + 1, limit, frequencies, frequencies[i], i)
    ELSE PeakSearch(i + 1, limit, frequencies, maxMagnitude, maxBin)

\* The spectral-peak fallback of calculateMelodicFeatures, entered when YIN
\* gave no frequency or a probability below 0.3:
\*   x0 = (y3 - y1) / (2 * (2 * y2 - y1 - y3)); dominantFreq = (maxBin + x0) * binSize
SpectralPeakFallback(frequencies, sampleRate, dominantFreq, noteConfidence) ==
    LET peak == PeakSearch(BinOf(80, sampleRate), Min2(BinOf(1000, sampleRate), NBins),
                           frequencies, 0, 0)
        maxBin == peak.maxBin
        y1 == frequencies[maxBin - 1]
        y2 == frequencies[maxBin]
        y3 == frequencies[maxBin + 1]
        den == 2 * (2 * y2 - y1 - y3)
        num == (maxBin * den + (y3 - y1)) * Nyquist(sampleRate)
    IN  IF peak.maxMagnitude > 30
        THEN [ dominantFreq |->
                 IF maxBin > 0 /\ maxBin < NBins - 1
                 THEN IF den = 0 THEN JsDivide(y3 - y1, 0)
                      ELSE IF den > 0 THEN num \div (den * NBins)
                      ELSE (0 - num) \div ((0 - den) * NBins)
                 ELSE BinFreq(maxBin, sampleRate),
               noteConfidence |-> Min2(Frac(8, 10), Frac(peak.maxMagnitude, 255)),
               zeroDiv |-> IF maxBin > 0 /\ maxBin < NBins - 1 /\ den = 0
                           THEN {"spectralPeak"} ELSE {} ]
        ELSE [dominantFreq |-> dominantFreq, noteConfidence |-> noteConfidence, zeroDiv |-> {}]

RECURSIVE ChromaAccumulate(_, _, _, _)
\* the chromagram loop from bin i on
ChromaAccumulate(i, frequencies, sampleRate, chroma) ==
    IF i >= NBins THEN chroma
    ELSE LET nyq == Nyquist(sampleRate)
             skip == i * nyq < 80 * NBins \/ i * nyq > 4000 * NBins
             pitchClass == RoundedMidi((i * nyq * 100) \div NBins, 69) % 12
             weight == Mul(Magnitude(frequencies[i]), A_WEIGHTING(BinFreq(i, sampleRate)))
             side == Mul(weight, Frac(15, 100))
             below == (pitchClass + 11) % 12
             above == (pitchClass + 1) % 12
             c1 == [chroma EXCEPT ![pitchClass] = @ + Mul(weight, Frac(7, 10))]
             c2 == [c1 EXCEPT ![below] = @ + side]
             c3 == [c2 EXCEPT ![above] = @ + side]
         IN  ChromaAccumulate(i + 1, frequencies, sampleRate, IF skip THEN chroma ELSE c3)

RECURSIVE SumFn(_, _, _)
SumFn(f, lo, hi) == IF lo > hi THEN 0 ELSE f[lo] + SumFn(f, lo + 1, hi)

\* the chroma vector of this tick, normalized to sum 1 when it is not all zero
NormalizedChroma(frequencies, sampleRate) ==
    LET chroma == ChromaAccumulate(1, frequencies, sampleRate, ZeroChroma)
        chromaSum == SumFn(chroma, 0, 11)
    IN  IF chromaSum > 0 THEN [i \in PitchClasses |-> Ratio(chroma[i], chromaSum)] ELSE chroma

\* calculateMelodicFeatures: yin is the detector the identifier yinDetector
\* resolves to; returns the features, the new chromaSmoothing, and the
\* divisions by zero evaluated
calculateMelodicFeatures(waveform, frequencies, sampleRate, yin, chromaSmoothing) ==
    LET pitchResult == detectPitch(yin, Float32Waveform(waveform))
        useFallback == JsLessEq(pitchResult.frequency, 0) \/ pitchResult.probability < Frac(3, 10)
        fb == IF useFallback
              THEN SpectralPeakFallback(frequencies, sampleRate,
                                        pitchResult.frequency, pitchResult.probability)
              ELSE [dominantFreq |-> pitchResult.frequency,
                    noteConfidence |-> pitchResult.probability, zeroDiv |-> {}]
        chroma == NormalizedChroma(frequencies, sampleRate)
        smoothed == [i \in PitchClasses |->
                        Mul(chromaSmoothing[i], CHROMA_SMOOTHING)
                        + Mul(chroma[i], Scale - CHROMA_SMOOTHING)]
    IN  [ dominantFrequency |-> fb.dominantFreq,
          dominantNote |-> frequencyToNote(fb.dominantFreq),
          noteConfidence |-> fb.noteConfidence,
          pitchClass |-> smoothed,
          zeroDiv |-> pitchResult.zeroDiv \cup fb.zeroDiv ]

---------------------------------------------------------------------------
(* ChromaKeyAnalyzer: TimbreAnalyzer *)

\* the Krumhansl-Schmuckler profiles, in hundredths
MAJOR_PROFILE == <<635, 223, 348, 233, 438, 409, 252, 519, 239, 366, 229, 288>>
MINOR_PROFILE == <<633, 268, 352, 538, 260, 353, 254, 475, 398, 269, 334, 317>>

TIMBRE_historySize == 30

InitTimbre == [noteHistory |-> <<>>, chromaHistory |-> <<>>]

\* rotateArray(arr, steps) as a function on 0..11: result[i] = arr[(i + steps) % n]
rotateArray(arr, steps) == [i \in PitchClasses |-> arr[((i + steps) % 12) + 1]]

RECURSIVE SumProd(_, _, _)
SumProd(a, b, i) == IF i > 11 THEN 0 ELSE a[i] * b[i] + SumProd(a, b, i + 1)

\* correlate(a, b): Pearson correlation in fixed point, 0 when the denominator is 0
correlate(a, b) ==
    LET n == 12
        sumA == SumFn(a, 0, 11)
        sumB == SumFn(b, 0, 11)
        sumAB == SumProd(a, b, 0)
        sumA2 == SumProd(a, a, 0)
        sumB2 == SumProd(b, b, 0)
        numerator == n * sumAB - sumA * sumB
        denominator == ISqrt(n * sumA2 - sumA * sumA) * ISqrt(n * sumB2 - sumB * sumB)
    IN  IF denominator = 0 THEN 0 ELSE JsDivide(numerator, denominator)

RECURSIVE KeySearch(_, _, _)
\* the loop of detectKey from root i on; best = {key, mode, correlation}
KeySearch(i, chroma, best) ==
    IF i > 11 THEN best
    ELSE LET majorCorr == correlate(chroma, rotateArray(MAJOR_PROFILE, i))
             b1 == IF majorCorr > best.correlation
                   THEN [key |-> NOTE_NAMES[i + 1], mode |-> "major", correlation |-> majorCorr]
                   ELSE best
             minorCorr == correlate(chroma, rotateArray(MINOR_PROFILE, i))
             b2 == IF minorCorr > b1.correlation
                   THEN [key |-> NOTE_NAMES[i + 1], mode |-> "minor", correlation |-> minorCorr]
                   ELSE b1
         IN  KeySearch(i + 1, chroma, b2)

\* Mutant: the correlation has to reach 0.9 for the mode to be kept.
detectKey_HighThreshold(chroma) ==
    LET best == KeySearch(0, chroma, [key |-> "C", mode |-> "unknown", correlation |-> 0 - Scale])
    IN  IF best.correlation < Frac(9, 10) THEN [best EXCEPT !.mode = "unknown"] ELSE best

detectKey(chroma) ==
    LET best == KeySearch(0, chroma, [key |-> "C", mode |-> "unknown", correlation |-> 0 - Scale])
    IN  IF best.correlation < Frac(6, 10) THEN [best EXCEPT !.mode = "unknown"] ELSE best

Count(s, v) == Cardinality({i \in 1 .. Len(s) : s[i] = v})

RECURSIVE MostCommonFrom(_, _, _, _)
\* Object.keys(counts).reduce((a, b) => counts[a] > counts[b] ? a : b): keys in
\* order of first appearance, a tie goes to the later key
MostCommonFrom(arr, i, seen, a) ==
    IF i > Len(arr) THEN a
    ELSE IF arr[i] \in seen THEN MostCommonFrom(arr, i + 1, seen, a)
    ELSE MostCommonFrom(arr, i + 1, seen \cup {arr[i]},
                        IF Count(arr, a) > Count(arr, arr[i]) THEN a ELSE arr[i])

getMostCommon(arr) == MostCommonFrom(arr, 2, {arr[1]}, arr[1])

\* arr.slice(-k)
LastK(arr, k) == IF Len(arr) <= k THEN arr ELSE SubSeq(arr, Len(arr) - k + 1, Len(arr))

\* analyzeMusicalContext: ta is the TimbreAnalyzer's state (tension is not
\* carried: it feeds no state)
analyzeMusicalContext(melodic, ta) ==
    LET noteHistory == IF melodic.dominantNote # NoNote
                       THEN PushCapped(ta.noteHistory, melodic.dominantNote, TIMBRE_historySize)
                       ELSE ta.noteHistory
        chromaHistory == PushCapped(ta.chromaHistory, melodic.pitchClass, TIMBRE_historySize)
        notePresent == melodic.noteConfidence > Frac(3, 10) /\ melodic.dominantNote # NoNote
        recentNotes == LastK(noteHistory, 10)
        k == detectKey(melodic.pitchClass)
    IN  [ ta |-> [noteHistory |-> noteHistory, chromaHistory |-> chromaHistory],
          musicalContext |->
            [ notePresent |-> notePresent,
              noteStability |-> IF notePresent /\ Len(noteHistory) > 5
                                THEN Frac(Count(recentNotes, getMostCommon(recentNotes)),
                                          Len(recentNotes))
                                ELSE 0,
              key |-> k.key,
              mode |-> k.mode ] ]

---------------------------------------------------------------------------
(* TempoTracker: BPMDetector.  BPM values are in tenths of a BPM. *)

BPM_historySize == 15
BPM_minBPM == 70
BPM_maxBPM == 190
BPM_confidenceHistorySize == 10
BPM_minOdfSamples == 128

\* lastACF = null is the empty sequence (a computed ACF has >= 128 entries)
InitBPMDetector ==
    [bpmHistory |-> <<>>, lastACF |-> <<>>, lastBestLag |-> 0, confidenceHistory |-> <<>>]

RECURSIVE LagSumRange(_, _, _, _)
\* sum of buffer[i] * buffer[i + lag] for i in lo .. hi, by halves
LagSumRange(buffer, lag, lo, hi) ==
    IF lo > hi THEN 0
    ELSE IF lo = hi THEN Mul(buffer[lo], buffer[lo + lag])
    ELSE LagSumRange(buffer, lag, lo, (lo + hi) \div 2)
         + LagSumRange(buffer, lag, (lo + hi) \div 2 + 1, hi)

\* the inner loop of autocorrelation from index i on
LagSum(buffer, lag, i) == LagSumRange(buffer, lag, i, Len(buffer) - lag)

\* autocorrelation(buffer): acf[lag] for lag 0 .. length-1, kept 1-indexed
autocorrelation(buffer) == [k \in 1 .. Len(buffer) |-> LagSum(buffer, k - 1, 1)]

\* Mutant: the mean of the history in place of its median.
getStableBPM_Mean(bpmHistory) ==
    IF Len(bpmHistory) < 5 THEN 0 ELSE SumSeq(bpmHistory) \div Len(bpmHistory)

getStableBPM(bpmHistory) ==
    IF Len(bpmHistory) < 5 THEN 0 ELSE calculateMedian(bpmHistory)

RECURSIVE BestLag_LastPeak(_, _, _, _, _)
\* Mutant: every local peak replaces the best lag, so the last one wins.
BestLag_LastPeak(acf, lag, maxLag, maxCorrelation, bestLag) ==
    IF lag > maxLag \/ lag >= Len(acf) THEN bestLag
    ELSE IF lag > 0 /\ lag < Len(acf) - 1
            /\ acf[lag + 1] > acf[lag] /\ acf[lag + 1] > acf[lag + 2]
    THEN BestLag_LastPeak(acf, lag + 1, maxLag, acf[lag + 1], lag)
    ELSE BestLag_LastPeak(acf, lag + 1, maxLag, maxCorrelation, bestLag)

RECURSIVE BestLag(_, _, _, _, _)
\* the peak search of detectBPM over lag .. maxLag; -1 stands for -Infinity
BestLag(acf, lag, maxLag, maxCorrelation, bestLag) ==
    IF lag > maxLag \/ lag >= Len(acf) THEN bestLag
    ELSE IF lag > 0 /\ lag < Len(acf) - 1
            /\ acf[lag + 1] > acf[lag] /\ acf[lag + 1] > acf[lag + 2]
            /\ acf[lag + 1] > maxCorrelation
    THEN BestLag(acf, lag + 1, maxLag, acf[lag + 1], lag)
    ELSE BestLag(acf, lag + 1, maxLag, maxCorrelation, bestLag)

\* Mutant: a lag counts only when its correlation exceeds a fixed floor.
detectBPM_PeakFloor(odfHistory, sampleRate, bd) ==
    IF Len(odfHistory) < BPM_minOdfSamples
    THEN [bd |-> bd, bpm |-> getStableBPM(bd.bpmHistory)]
    ELSE LET acf == autocorrelation(odfHistory)
             minLag == (sampleRate * 60) \div BPM_maxBPM
             maxLag == (sampleRate * 60 + BPM_minBPM - 1) \div BPM_minBPM
             bestLag == BestLag(acf, minLag, maxLag, Frac(2, 10), 0)
             calculatedBPM == (60 * sampleRate * 10) \div bestLag
             history == IF bestLag > 0
                        THEN PushCapped(bd.bpmHistory, calculatedBPM, BPM_historySize)
                        ELSE bd.bpmHistory
         IN  [ bd |-> [bd EXCEPT !.bpmHistory = history, !.lastACF = acf, !.lastBestLag = bestLag],
               bpm |-> getStableBPM(history) ]

\* detectBPM(odfHistory, sampleRate): the detector's new state and the BPM
detectBPM(odfHistory, sampleRate, bd) ==
    IF Len(odfHistory) < BPM_minOdfSamples
    THEN [bd |-> bd, bpm |-> getStableBPM(bd.bpmHistory)]
    ELSE LET acf == autocorrelation(odfHistory)
             minLag == (sampleRate * 60) \div BPM_maxBPM
             maxLag == (sampleRate * 60 + BPM_minBPM - 1) \div BPM_minBPM
             bestLag == BestLag(acf, minLag, maxLag, -1, 0)
             calculatedBPM == (60 * sampleRate * 10) \div bestLag
             history == IF bestLag > 0
                        THEN PushCapped(bd.bpmHistory, calculatedBPM, BPM_historySize)
                        ELSE bd.bpmHistory
         IN  [ bd |-> [bd EXCEPT !.bpmHistory = history, !.lastACF = acf, !.lastBestLag = bestLag],
               bpm |-> getStableBPM(history) ]

RECURSIVE MaxRange(_, _, _)
\* Math.max over acf[lo .. hi] and 0, by halves
MaxRange(acf, lo, hi) ==
    IF lo > hi THEN 0
    ELSE IF lo = hi THEN Max2(0, acf[lo])
    ELSE Max2(MaxRange(acf, lo, (lo + hi) \div 2), MaxRange(acf, (lo + hi) \div 2 + 1, hi))

MaxFrom(acf, k) == MaxRange(acf, k, Len(acf))

\* calculatePeakProminence: peakValue / (secondPeak || 1)
calculatePeakProminence(acf, bestLag) ==
    LET secondPeak == MaxFrom(acf, bestLag + 11)
    IN  IF secondPeak = 0 THEN acf[bestLag + 1] ELSE JsDivide(acf[bestLag + 1], secondPeak)

RECURSIVE SumSqDev(_, _)
SumSqDev(s, mean) ==
    IF s = <<>> THEN 0
    ELSE (Head(s) - mean) * (Head(s) - mean) + SumSqDev(Tail(s), mean)

\* getConfidence: the detector's new state and the smoothed confidence
getConfidence(bd) ==
    IF Len(bd.bpmHistory) < 5 THEN [bd |-> bd, confidence |-> 0]
    ELSE LET mean == SumSeq(bd.bpmHistory) \div Len(bd.bpmHistory)
             stdDev == ISqrt(SumSqDev(bd.bpmHistory, mean) \div Len(bd.bpmHistory))
             stabilityFactor == Max2(0, Scale - JsDivide(stdDev * 100, mean * 8))
             prominence == calculatePeakProminence(bd.lastACF, bd.lastBestLag)
             prominenceFactor == Min2(prominence \div 3, Scale)
             currentConfidence == IF bd.lastACF # <<>> /\ bd.lastBestLag > 0
                                  THEN (prominenceFactor + stabilityFactor) \div 2
                                  ELSE stabilityFactor
             history == PushCapped(bd.confidenceHistory, currentConfidence,
                                   BPM_confidenceHistorySize)
         IN  [ bd |-> [bd EXCEPT !.confidenceHistory = history],
               confidence |-> calculateMedian(history) ]

\* getBeatPhase: times in ms, bpm in tenths
getBeatPhase(currentTime, bpm, lastBeatTime) ==
    IF bpm = 0 \/ lastBeatTime = 0 THEN 0
    ELSE LET beatDuration == 600000 \div bpm
         IN  Frac((currentTime - lastBeatTime) % beatDuration, beatDuration)

---------------------------------------------------------------------------
(* The worker's module-level state and its analyze function *)

ODF_SAMPLE_RATE == 43
ODF_HISTORY_SIZE == 256
TRANSIENT_HISTORY_LENGTH == 10

InitTransient == [value |-> 0, history |-> [i \in 1 .. TRANSIENT_HISTORY_LENGTH |-> 0]]

\* self.yinDetector before updateConfig sets it: no such property
NoDetector == YINPitchDetector(0, 0, 0)

\* the state audio.worker.ts has when its module has been evaluated
InitEngine ==
    [ bpmDetector          |-> InitBPMDetector,
      yinDetector          |-> DefaultYIN,       \* the module's const binding
      selfYinDetector      |-> NoDetector,       \* the property self.yinDetector
      timbreAnalyzer       |-> InitTimbre,
      odfHistory           |-> <<>>,
      chromaSmoothing      |-> ZeroChroma,
      lastBeatTime         |-> 0,
      realSampleRate       |-> 44100,
      prevBands            |-> [bass |-> 0, mid |-> 0, treble |-> 0],
      prevFrequencies      |-> [i \in 0 .. (PREV_FREQUENCIES_LENGTH - 1) |-> 0],
      transientState       |-> [bass |-> InitTransient, mid |-> InitTransient,
                                treble |-> InitTransient, overall |-> InitTransient],
      bandEnvelope         |-> [bass |-> InitEnvelope, mid |-> InitEnvelope, treble |-> InitEnvelope],
      energyEnvelope       |-> InitEnvelope,
      prevNormalizedEnergy |-> 0,
      dropIntensity        |-> 0,
      lastDropTime         |-> 0 ]

\* calculateRhythmicFeatures, st being the state after detectTransients;
\* currentTime is performance.now() in ms
calculateRhythmicFeatures(spectralFlux, currentTime, isOverallTransient, st) ==
    LET odfHistory == PushCapped(st.odfHistory, spectralFlux, ODF_HISTORY_SIZE)
        det == detectBPM(odfHistory, ODF_SAMPLE_RATE, st.bpmDetector)
        conf == getConfidence(det.bd)
        lastBeatTime == IF isOverallTransient THEN currentTime ELSE st.lastBeatTime
        half == Frac(5, 10)
        ts == st.transientState
        any == ts.bass.value > half \/ ts.mid.value > half \/ ts.treble.value > half
        all == ts.bass.value > half /\ ts.mid.value > half /\ ts.treble.value > half
    IN  [ st |-> [st EXCEPT !.odfHistory = odfHistory, !.bpmDetector = conf.bd,
                            !.lastBeatTime = lastBeatTime],
          rhythmicFeatures |->
            [ bpm |-> det.bpm,
              bpmConfidence |-> conf.confidence,
              beatPhase |-> getBeatPhase(currentTime, det.bpm, lastBeatTime),
              subdivision |-> IF all THEN 4 ELSE IF any THEN 2 ELSE 1 ] ]

RECURSIVE SumSqCentered(_)
SumSqCentered(waveform) ==
    IF waveform = <<>> THEN 0
    ELSE (Head(waveform) - 128) * (Head(waveform) - 128) + SumSqCentered(Tail(waveform))

\* volume of analyze: RMS of (waveform[i] - 128) / 128
WaveformVolume(waveform) ==
    (ISqrt((SumSqCentered(waveform) * 100) \div Len(waveform)) * Scale) \div 1280

ZeroBands == [bass |-> 0, mid |-> 0, treble |-> 0]
NoTransients == [bass |-> FALSE, mid |-> FALSE, treble |-> FALSE, overall |-> FALSE]

\* The fields of an AudioData frame that this model carries.  frequencies and
\* waveform (passed through), centroid / spread / rolloff, harmonicContent,
\* timbreProfile and tension are pure outputs that no later tick reads.
NeutralFrame(dropIntensity) ==
    [ volume |-> 0,
      energy |-> 0,
      bands |-> ZeroBands,
      dynamicBands |-> ZeroBands,
      transients |-> NoTransients,
      dropIntensity |-> dropIntensity,
      flux |-> 0,
      melodicFeatures |-> [ dominantFrequency |-> 0, dominantNote |-> NoNote,
                            noteConfidence |-> 0, pitchClass |-> ZeroChroma ],
      rhythmicFeatures |-> [bpm |-> 0, bpmConfidence |-> 0, beatPhase |-> 0, subdivision |-> 1],
      musicalContext |-> [notePresent |-> FALSE, noteStability |-> 0, key |-> "C", mode |-> "unknown"],
      beat |-> FALSE ]

DEFAULT_AUDIO_DATA == NeutralFrame(0)

SILENCE_FLOOR == 5

\* Mutant: the silence gate lets a peak of 1..4 through to the full pipeline.
IsSilent_ZeroOnly(frequencies) == MaxOf(frequencies, 0, NBins - 1) < 1

\* maxFreq < 5
IsSilent(frequencies) == MaxOf(frequencies, 0, NBins - 1) < SILENCE_FLOOR

\* analyze(data) gives the new module state, the frame, whether the drop
\* detector triggered and the divisions by zero it evaluated.

\* analyze, the return statement of the non-silent path
analyzeReturn(st, bands, volume, energy, spectral, melodic, dBass, dMid, dTreble, drop, tr, mc, rh) ==
    [ st |-> [rh.st EXCEPT !.timbreAnalyzer = mc.ta, !.prevBands = bands],
      frame |->
        [ volume |-> volume,
          energy |-> energy,
          bands |-> bands,
          dynamicBands |-> [bass |-> dBass.value, mid |-> dMid.value, treble |-> dTreble.value],
          transients |-> tr.transients,
          dropIntensity |-> drop.dropIntensity,
          flux |-> spectral.flux,
          melodicFeatures |-> [ dominantFrequency |-> melodic.dominantFrequency,
                                dominantNote |-> melodic.dominantNote,
                                noteConfidence |-> melodic.noteConfidence,
                                pitchClass |-> melodic.pitchClass ],
          rhythmicFeatures |-> rh.rhythmicFeatures,
          musicalContext |-> mc.musicalContext,
          beat |-> tr.transients.overall ],
      silent |-> FALSE,
      dropTriggered |-> drop.triggered,
      zeroDiv |-> melodic.zeroDiv ]

\* analyze, from the rhythmic features on: they read the module state the
\* earlier steps of this tick have written
analyzeRhythm(st, perfNow, bands, volume, energy, spectral, melodic, dBass, dMid, dTreble, dEnergy, drop, tr, mc) ==
    analyzeReturn(st, bands, volume, energy, spectral, melodic, dBass, dMid, dTreble,
                  drop, tr, mc,
                  calculateRhythmicFeatures(spectral.flux, perfNow, tr.transients.overall,
                      [st EXCEPT !.prevFrequencies = spectral.prevFrequencies,
                                 !.chromaSmoothing = melodic.pitchClass,
                                 !.bandEnvelope = [bass |-> dBass.envelope,
                                                   mid |-> dMid.envelope,
                                                   treble |-> dTreble.envelope],
                                 !.energyEnvelope = dEnergy.envelope,
                                 !.prevNormalizedEnergy = drop.prevNormalizedEnergy,
                                 !.dropIntensity = drop.dropIntensity,
                                 !.lastDropTime = drop.lastDropTime,
                                 !.transientState = tr.transientState]))

\* analyze, from the drop and transient detection on
analyzeEvents(st, now, perfNow, bands, volume, energy, spectral, melodic, dBass, dMid, dTreble, dEnergy) ==
    analyzeRhythm(st, perfNow, bands, volume, energy, spectral, melodic,
                  dBass, dMid, dTreble, dEnergy,
                  detectDrop(dEnergy.value, now, st),
                  detectTransients(bands, energy, st.transientState),
                  analyzeMusicalContext(melodic, st.timbreAnalyzer))

\* analyze, from the dynamic (envelope-normalized) values on
analyzeDynamics(st, now, perfNow, bands, volume, energy, spectral, melodic) ==
    analyzeEvents(st, now, perfNow, bands, volume, energy, spectral, melodic,
                  calculateDynamicValue(bands.bass, st.bandEnvelope.bass),
                  calculateDynamicValue(bands.mid, st.bandEnvelope.mid),
                  calculateDynamicValue(bands.treble, st.bandEnvelope.treble),
                  calculateDynamicValue(energy, st.energyEnvelope))

\* analyze(data): st is the worker's module state, now is Date.now() and
\* perfNow is performance.now() at the tick.  The silence gate returns the
\* neutral frame with dropIntensity * decay, which it does not store.
analyze(st, data, now, perfNow) ==
    IF IsSilent(data.frequencies)
    THEN [ st |-> [st EXCEPT !.realSampleRate = data.sampleRate],
           frame |-> NeutralFrame(Mul(st.dropIntensity, DROP_CONFIG.decay)),
           silent |-> TRUE,
           dropTriggered |-> FALSE,
           zeroDiv |-> {} ]
    ELSE analyzeDynamics([st EXCEPT !.realSampleRate = data.sampleRate], now, perfNow,
             calculateBands(data.frequencies, data.sampleRate),
             WaveformVolume(data.waveform),
             SpectrumEnergy(data.frequencies),
             calculateSpectralFeatures(data.frequencies, data.sampleRate, st.prevFrequencies),
             calculateMelodicFeatures(data.waveform, data.frequencies, data.sampleRate,
                                      st.yinDetector, st.chromaSmoothing))

---------------------------------------------------------------------------
(* RhythmicEngine.ts and melFilterbank.ts.  BPM values are in 1/BpmScale   *)
(* BPM (the BPM of every DFT bin, its half and its double are then whole), *)
(* times in milliseconds, beat periods in hundredths of a frame.           *)

RE_ODF_SAMPLE_RATE == 100
RE_ODF_HISTORY_SIZE == 512
RE_MIN_BPM == 60
RE_MAX_BPM == 200
RE_BEAT_WINDOW == 10
TEMPOGRAM_fftSize == 512
TEMPOGRAM_minSamples == 128
ACF_minSamples == 256

MelBands == 4          \* Mel filters of the bank
BpmScale == 64         \* units per BPM

\* binPoints: the spectrum bins of the numFilters + 2 Mel-spaced points
MelBinPoints == <<0, 2, 4, 7, 11, 15>>

\* cos(x) for x in [0, pi/2] radians, fixed point
CosSeries(x) ==
    LET x2 == Mul(x, x)
    IN  Scale - Mul(x2 \div 2, Scale - Mul(x2 \div 12, Scale - Mul(x2 \div 30,
                Scale - Mul(x2 \div 56, Scale - x2 \div 90))))

\* Math.cos(2 * Math.PI * num / den), den > 0
CosTurn(num, den) ==
    LET r == num % den
        h == IF 2 * r > den THEN den - r ELSE r
    IN  IF 4 * h <= den THEN CosSeries((62832 * h) \div den)
        ELSE 0 - CosSeries((62832 * (den - 2 * h)) \div (2 * den))

\* Math.cos(2 * Math.PI * m / fftSize) for the angles the DFT uses
CosTable == [m \in 0 .. (TEMPOGRAM_fftSize - 1) |-> CosTurn(m, TEMPOGRAM_fftSize)]

RECURSIVE LnSeries(_, _, _)
\* z^n / n + z^(n+2) / (n+2) + ... for the odd n up to 15, zn = z^n
LnSeries(z, zn, n) ==
    IF n > 15 \/ zn = 0 THEN 0
    ELSE zn \div n + LnSeries(z, Mul(Mul(zn, z), z), n + 2)

\* Math.log(num / den) for num, den > 0: 2 * atanh((num - den) / (num + den))
Ln(num, den) ==
    LET z == ((num - den) * Scale) \div (num + den)
    IN  2 * LnSeries(z, z, 1)

\* Math.sqrt(a * a + b * b)
Hypot(a, b) ==
    LET x == IF a < 0 THEN 0 - a ELSE a
        y == IF b < 0 THEN 0 - b ELSE b
        m == Max2(x, y)
        r == Ratio(Min2(x, y), m)     \* 0 when both are 0
        s == ISqrt(Scale * Scale + r * r)
    IN  (m \div Scale) * s + ((m % Scale) * s) \div Scale

\* createFilterbank: one triangular filter, the falling slope written last
TriangularFilter(leftBin, centerBin, rightBin) ==
    [j \in Bins |->
        IF j >= centerBin /\ j <= rightBin THEN Frac(rightBin - j, rightBin - centerBin)
        ELSE IF j >= leftBin /\ j < centerBin THEN Frac(j - leftBin, centerBin - leftBin)
        ELSE 0]

createFilterbank ==
    [i \in 1 .. MelBands |->
        TriangularFilter(MelBinPoints[i], MelBinPoints[i + 1], MelBinPoints[i + 2])]

RECURSIVE FilterSum(_, _, _)
\* the sum of spectrum[j] * filter[j] from bin j on
FilterSum(spectrum, filter, j) ==
    IF j >= NBins THEN 0
    ELSE Mul(spectrum[j], filter[j]) + FilterSum(spectrum, filter, j + 1)

\* MelFilterBank.apply(spectrum), and the loop of calculateRobustODF's step 1
MelApply(spectrum, filterbank, melBands) ==
    [i \in 1 .. melBands |-> FilterSum(spectrum, filterbank[i], 0)]

RECURSIVE BandFluxes(_, _, _)
\* the half-wave rectified fluxes of bands i .. : only the positive ones
BandFluxes(melEnergies, prevMelEnergies, i) ==
    IF i > Len(melEnergies) THEN <<>>
    ELSE LET flux == melEnergies[i] - prevMelEnergies[i]
             rest == BandFluxes(melEnergies, prevMelEnergies, i + 1)
         IN  IF flux > 0 THEN <<flux>> \o rest ELSE rest

\* melFilterbank.ts calculateRobustODF(fftMagnitudes, prevMelEnergies,
\* melFilterbank, melBands): the value returned and prevMelEnergies as left
calculateRobustODF(fftMagnitudes, prevMelEnergies, melFilterbank, melBands) ==
    LET melEnergies == MelApply([j \in Bins |-> Magnitude(fftMagnitudes[j])],
                                melFilterbank, melBands)
    IN  [ odf |-> calculateMedian(BandFluxes(melEnergies, prevMelEnergies, 1)),
          prevMelEnergies |-> melEnergies ]

\* RhythmicEngine.calculateRobustODF(magnitudes)
RhythmicEngine_calculateRobustODF(magnitudes, prevMelEnergies) ==
    LET melEnergies == MelApply(magnitudes, createFilterbank, MelBands)
    IN  [ odf |-> calculateMedian(BandFluxes(melEnergies, prevMelEnergies, 1)),
          prevMelEnergies |-> melEnergies ]

\* new RhythmicEngine(): frameCount is read only as frameCount % 10 and is
\* kept modulo 10
InitRhythmic ==
    [ odfHistory |-> <<>>,
      prevMelEnergies |-> [i \in 1 .. MelBands |-> 0],
      beatEvents |-> <<>>,
      frameCount |-> 0,
      dpWindowSize |-> RE_BEAT_WINDOW * RE_ODF_SAMPLE_RATE,
      tempoCandidates |-> <<>>,
      primaryBPM |-> 0,
      beatPhase |-> 0 ]

\* calculateTempogram: the history under the Hann window, 0-indexed
HannWindowed(h) ==
    [n \in 0 .. (Len(h) - 1) |->
        Mul(h[n + 1], Scale \div 2 - CosTurn(n, Len(h) - 1) \div 2)]

RECURSIVE DftSum(_, _, _, _, _)
\* the sum of x[n] * cos(2 pi (k n + shift) / fftSize) for n in lo .. hi
DftSum(x, k, shift, lo, hi) ==
    IF lo > hi THEN 0
    ELSE IF lo = hi THEN Mul(x[lo], CosTable[(k * lo + shift) % TEMPOGRAM_fftSize])
    ELSE DftSum(x, k, shift, lo, (lo + hi) \div 2)
         + DftSum(x, k, shift, (lo + hi) \div 2 + 1, hi)

\* calculateTempogram: the magnitude spectrum; sin(-a) = -cos(a - pi/2)
TempogramMagnitudes(x, L) ==
    [k \in 0 .. (TEMPOGRAM_fftSize \div 2 - 1) |->
        Hypot(DftSum(x, k, 0, 0, L - 1),
              0 - DftSum(x, k, 3 * (TEMPOGRAM_fftSize \div 4), 0, L - 1))]

\* the BPM of DFT bin i: i * ODF_SAMPLE_RATE / fftSize * 60
BinBPM(i) == (i * RE_ODF_SAMPLE_RATE * 60 * BpmScale) \div TEMPOGRAM_fftSize

RECURSIVE InsertByConfidence(_, _)
InsertByConfidence(c, s) ==
    IF s = <<>> THEN <<c>>
    ELSE IF Head(s).confidence > c.confidence
    THEN <<Head(s)>> \o InsertByConfidence(c, Tail(s))
    ELSE <<c>> \o s

RECURSIVE SortByConfidence(_)
\* candidates.sort((a, b) => b.confidence - a.confidence), a stable sort
SortByConfidence(s) ==
    IF s = <<>> THEN <<>> ELSE InsertByConfidence(Head(s), SortByConfidence(Tail(s)))

RECURSIVE TempogramPeaks(_, _, _, _)
\* the local peaks of bins lo .. hi within [MIN_BPM, MAX_BPM], in bin order
TempogramPeaks(magnitudes, maxMagnitude, lo, hi) ==
    IF lo > hi THEN <<>>
    ELSE IF lo < hi
    THEN TempogramPeaks(magnitudes, maxMagnitude, lo, (lo + hi) \div 2)
         \o TempogramPeaks(magnitudes, maxMagnitude, (lo + hi) \div 2 + 1, hi)
    ELSE IF BinBPM(lo) < RE_MIN_BPM * BpmScale \/ BinBPM(lo) > RE_MAX_BPM * BpmScale THEN <<>>
    ELSE IF magnitudes[lo] > magnitudes[lo - 1] /\ magnitudes[lo] > magnitudes[lo + 1]
    THEN <<[ bpm |-> BinBPM(lo),
             confidence |-> Ratio(magnitudes[lo], maxMagnitude),
             source |-> "dft" ]>>
    ELSE <<>>

\* slice(0, k)
FirstK(arr, k) == SubSeq(arr, 1, Min2(k, Len(arr)))

\* calculateTempogram, from the magnitude spectrum on
TempogramCandidates(magnitudes) ==
    FirstK(SortByConfidence(
               TempogramPeaks(magnitudes,
                              MaxRange(magnitudes, 0, TEMPOGRAM_fftSize \div 2 - 1),
                              1, TEMPOGRAM_fftSize \div 2 - 2)), 5)

\* calculateTempogram
calculateTempogram(odfHistory) ==
    IF Len(odfHistory) < TEMPOGRAM_minSamples THEN <<>>
    ELSE TempogramCandidates(
             TempogramMagnitudes(HannWindowed(LastK(odfHistory, TEMPOGRAM_fftSize)),
                                 Min2(Len(odfHistory), TEMPOGRAM_fftSize)))

\* validateWithACF: acf[lag] / acf[0]; the loop fills lags below length / 2
\* and leaves the rest of the array 0
NormalizedAcf(odfHistory, lag) ==
    IF 2 * lag >= Len(odfHistory) THEN 0
    ELSE IF LagSum(odfHistory, 0, 1) > 0
    THEN Ratio(LagSum(odfHistory, lag, 1), LagSum(odfHistory, 0, 1))
    ELSE LagSum(odfHistory, lag, 1)

\* Math.round(60 / bpm * ODF_SAMPLE_RATE)
BeatLag(bpm) == (2 * 60 * BpmScale * RE_ODF_SAMPLE_RATE + bpm) \div (2 * bpm)

\* validateWithACF, the body of the loop: the validated candidate or nothing
validateCandidate(candidate, odfHistory) ==
    LET lag == BeatLag(candidate.bpm)
        correlation == NormalizedAcf(odfHistory, lag)
        halfLag == (lag + 1) \div 2
        doubleLag == lag * 2
        double == halfLag < Len(odfHistory)
                  /\ NormalizedAcf(odfHistory, halfLag) > Mul(correlation, Frac(12, 10))
        half == ~double /\ doubleLag < Len(odfHistory)
                /\ NormalizedAcf(odfHistory, doubleLag) > Mul(correlation, Frac(12, 10))
        finalBPM == IF double THEN candidate.bpm * 2
                    ELSE IF half THEN candidate.bpm \div 2 ELSE candidate.bpm
        finalConfidence == IF double THEN NormalizedAcf(odfHistory, halfLag)
                           ELSE IF half THEN NormalizedAcf(odfHistory, doubleLag)
                           ELSE correlation
    IN  IF lag < Len(odfHistory) /\ finalBPM >= RE_MIN_BPM * BpmScale /\ finalBPM <= RE_MAX_BPM * BpmScale
        THEN <<[ bpm |-> finalBPM,
                 confidence |-> Mul(finalConfidence, candidate.confidence),
                 source |-> "combined" ]>>
        ELSE <<>>

RECURSIVE validateEach(_, _)
validateEach(candidates, odfHistory) ==
    IF candidates = <<>> THEN <<>>
    ELSE validateCandidate(Head(candidates), odfHistory)
         \o validateEach(Tail(candidates), odfHistory)

\* validateWithACF
validateWithACF(candidates, odfHistory) ==
    IF Len(odfHistory) < ACF_minSamples THEN candidates
    ELSE validateEach(candidates, odfHistory)

\* Mutant: no penalty for an interval that is off the target period.
penalty_Flat(delta, target) == 0

\* trackBeats: penalty(delta, target) = -log(delta / target)^2, the target
\* period in hundredths of a frame
penalty(delta, target) ==
    0 - Mul(Ln(delta * 100, target), Ln(delta * 100, target))

RECURSIVE BestPrev(_, _, _, _, _, _, _, _)
\* the inner loop of the forward pass from prevT on: the best predecessor
\* found and its score (bestPrev -1: none)
BestPrev(scores, t, targetPeriod, alpha, prevT, maxPrev, bestScore, bestPrev) ==
    IF prevT > maxPrev \/ prevT >= t
    THEN [bestScore |-> bestScore, bestPrev |-> bestPrev]
    ELSE LET score == scores[prevT + 1] + Mul(alpha, penalty(t - prevT, targetPeriod))
         IN  IF bestPrev = -1 \/ score > bestScore
             THEN BestPrev(scores, t, targetPeriod, alpha, prevT + 1, maxPrev, score, prevT)
             ELSE BestPrev(scores, t, targetPeriod, alpha, prevT + 1, maxPrev, bestScore, bestPrev)

\* the predecessors searched for frame t: its first and its last frame
MinPrev(t, targetPeriod) == Max2(0, (100 * t - 2 * targetPeriod) \div 100)
MaxPrev(t, targetPeriod) == (200 * t - targetPeriod) \div 200

RECURSIVE ForwardPass(_, _, _, _, _, _)
\* the forward pass from frame t on; scores and backpointers are the arrays
\* of frames 0 .. t-1
ForwardPass(odfWindow, targetPeriod, alpha, t, scores, backpointers) ==
    IF t >= Len(odfWindow)
    THEN [scores |-> scores, backpointers |-> backpointers]
    ELSE LET best == BestPrev(scores, t, targetPeriod, alpha, MinPrev(t, targetPeriod),
                              MaxPrev(t, targetPeriod), 0, -1)
         IN  ForwardPass(odfWindow, targetPeriod, alpha, t + 1,
                         Append(scores, odfWindow[t + 1]
                                        + (IF best.bestPrev >= 0 THEN best.bestScore ELSE 0)),
                         Append(backpointers, best.bestPrev))

RECURSIVE BestEnd(_, _, _, _)
\* the backward pass's choice of the ending frame, from frame t on
BestEnd(scores, t, bestEnd, maxScore) ==
    IF t >= Len(scores) THEN bestEnd
    ELSE IF t >= 0 /\ (maxScore = NegInfinity \/ scores[t + 1] > maxScore)
    THEN BestEnd(scores, t + 1, t, scores[t + 1])
    ELSE BestEnd(scores, t + 1, bestEnd, maxScore)

RECURSIVE CollectBeats(_, _, _)
\* while (current > 0 && backpointers[current] >= 0) unshift(current)
CollectBeats(backpointers, current, beatIndices) ==
    IF current > 0 /\ backpointers[current + 1] >= 0
    THEN CollectBeats(backpointers, backpointers[current + 1], <<current>> \o beatIndices)
    ELSE beatIndices

\* trackBeats, the forward pass: frame 0 keeps the arrays' initial score 0
\* and backpointer 0 (the arrays are kept 1-indexed: frame t at t + 1)
trackBeats_forward(odfWindow, targetPeriod, alpha) ==
    IF odfWindow = <<>> THEN [scores |-> <<>>, backpointers |-> <<>>]
    ELSE ForwardPass(odfWindow, targetPeriod, alpha, 1, <<0>>, <<0>>)

\* trackBeats, the backward pass: the frame the trace starts from
trackBeats_bestEnd(scores, targetPeriod) ==
    BestEnd(scores, Len(scores) - (3 * targetPeriod) \div 200, 0, NegInfinity)

\* trackBeats(odfWindow, targetPeriod, alpha = 0.7)
trackBeats(odfWindow, targetPeriod, alpha) ==
    LET fw == trackBeats_forward(odfWindow, targetPeriod, alpha)
    IN  IF odfWindow = <<>> THEN <<>>
        ELSE CollectBeats(fw.backpointers,
                          trackBeats_bestEnd(fw.scores, targetPeriod), <<>>)

\* 60 / primaryBPM * ODF_SAMPLE_RATE, in hundredths of a frame
TargetPeriod(primaryBPM) == (60 * BpmScale * RE_ODF_SAMPLE_RATE * 100) \div primaryBPM

RECURSIVE FindBeatPair(_, _, _)
\* analyze: the index of the first beat i with time[i] <= currentTime <
\* time[i + 1], or of the first beat when there is none
FindBeatPair(beatEvents, currentTime, i) ==
    IF i >= Len(beatEvents) THEN 1
    ELSE IF beatEvents[i].time <= currentTime /\ beatEvents[i + 1].time > currentTime THEN i
    ELSE FindBeatPair(beatEvents, currentTime, i + 1)

\* analyze: the beat tracking block; currentTime in milliseconds
trackWindow(re, odfHistory, primaryBPM, currentTime) ==
    LET odfWindow == LastK(odfHistory, re.dpWindowSize)
        beatIndices == trackBeats(odfWindow, TargetPeriod(primaryBPM), Frac(7, 10))
        windowStartTime == currentTime - (re.dpWindowSize * 1000) \div RE_ODF_SAMPLE_RATE
        beatEvents == [n \in 1 .. Len(beatIndices) |->
                          [ time |-> windowStartTime
                                     + (beatIndices[n] * 1000) \div RE_ODF_SAMPLE_RATE,
                            strength |-> odfWindow[beatIndices[n] + 1] ]]
        i == FindBeatPair(beatEvents, currentTime, 1)
    IN  [ beatEvents |-> beatEvents,
          isBeat |-> \E n \in 1 .. Len(beatEvents) :
                         /\ beatEvents[n].time - currentTime < 50
                         /\ currentTime - beatEvents[n].time < 50,
          beatPhase |-> IF Len(beatEvents) > 1
                        THEN Max2(0, Min2(Scale,
                                 Frac(currentTime - beatEvents[i].time,
                                      beatEvents[i + 1].time - beatEvents[i].time)))
                        ELSE re.beatPhase ]

\* RhythmicEngine.analyze(frequencies, currentTime): the engine after the
\* call and the record returned.  The subdivision estimate is left out: it
\* is computed from the history and stored nowhere.
RhythmicEngine_analyze(re, frequencies, currentTime) ==
    LET r == RhythmicEngine_calculateRobustODF(
                 [j \in Bins |-> Magnitude(frequencies[j])], re.prevMelEnergies)
        frameCount == (re.frameCount + 1) % 10
        odfHistory == PushCapped(re.odfHistory, r.odf, RE_ODF_HISTORY_SIZE)
        retempo == frameCount = 0 /\ Len(odfHistory) > 256
        tempoCandidates == IF retempo
                           THEN validateWithACF(calculateTempogram(odfHistory), odfHistory)
                           ELSE re.tempoCandidates
        primaryBPM == IF retempo /\ Len(tempoCandidates) > 0
                      THEN tempoCandidates[1].bpm ELSE re.primaryBPM
        tracking == primaryBPM > 0 /\ Len(odfHistory) >= re.dpWindowSize
        tw == IF tracking THEN trackWindow(re, odfHistory, primaryBPM, currentTime)
              ELSE [beatEvents |-> re.beatEvents, isBeat |-> FALSE, beatPhase |-> re.beatPhase]
    IN  [ st |-> [re EXCEPT !.odfHistory = odfHistory,
                            !.prevMelEnergies = r.prevMelEnergies,
                            !.frameCount = frameCount,
                            !.tempoCandidates = tempoCandidates,
                            !.primaryBPM = primaryBPM,
                            !.beatEvents = tw.beatEvents,
                            !.beatPhase = tw.beatPhase],
          retempo |-> retempo,
          tracking |-> tracking,
          out |-> [ primaryBPM |-> primaryBPM,
                    bpmConfidence |-> IF Len(tempoCandidates) > 0
                                      THEN tempoCandidates[1].confidence * 100 ELSE 0,
                    beatEvents |-> LastK(tw.beatEvents, 8),
                    beatPhase |-> tw.beatPhase,
                    isBeat |-> tw.isBeat,
                    onsetStrength |-> r.odf ] ]

---------------------------------------------------------------------------
(* What the capture layer can hand over: spectra and waveforms *)

\* waveform = new Uint8Array(analyser.frequencyBinCount)
WaveLen == NBins
MaxMessages == 5       \* message ids the hook hands out
MaxBare == 1           \* analyze messages without data that reach the worker
PageLoadEpoch == 1000  \* Date.now() at clock 0, ms

MaxFiles == 2          \* files the user uploads
Files == 1 .. MaxFiles
Elements == {1, 2}
SampleRates == {8000, 44100}
FrameDeltas == {20, 40}

FlatSpectrum(v) == [i \in Bins |-> v]
RampSpectrum == [i \in Bins |-> Min2(255, 50 * i)]

FlatWave == [i \in 1 .. WaveLen |-> 128]
SquareWave == [i \in 1 .. WaveLen |-> IF i % 2 = 0 THEN 255 ELSE 0]

\* getByteFrequencyData / getByteTimeDomainData results
Captures ==
    { [frequencies |-> FlatSpectrum(0),   waveform |-> FlatWave],
      [frequencies |-> FlatSpectrum(4),   waveform |-> SquareWave],
      [frequencies |-> RampSpectrum,      waveform |-> SquareWave] }

\* Date.now() when the page clock reads c
DateNow(c) == PageLoadEpoch + c

---------------------------------------------------------------------------
(* Messages *)

NoData == [frequencies |-> FlatSpectrum(0), waveform |-> FlatWave, sampleRate |-> 0,
           src |-> <<0, 0>>]

\* WorkerMessage {type, data?, id}; src tags the data with the element and
\* the file it was captured from
Message(type, id, hasData, data) == [type |-> type, id |-> id, hasData |-> hasData, data |-> data]

\* WorkerResponse {type, data?, id}: data is the frame of a 'result', the
\* message of an 'error', and absent from a 'ready'
Response(type, id, frame) == [type |-> type, id |-> id, data |-> frame]

---------------------------------------------------------------------------
(* Observations *)

NoTick ==
    [ id |-> -1, kind |-> "none", silent |-> FALSE, firstOfSource |-> FALSE,
      buffersFresh |-> TRUE, configured |-> FALSE, selfYin |-> NoDetector,
      yinUsed |-> NoDetector, triggered |-> FALSE, zeroDiv |-> {},
      frame |-> DEFAULT_AUDIO_DATA, storedDrop |-> 0, storedBefore |-> 0,
      peak |-> -1, prevKind |-> "none", prevReported |-> 0, yinShort |-> FALSE ]

InitObs ==
    [ calls |-> 0,              \* calls made (single-function specifications)
      input |-> 0,              \* the last call's argument
      ret |-> 0,                \* the last call's return value
      dropTimes |-> <<>>,       \* the clock readings at which detectDrop triggered
      tick |-> NoTick,          \* the last analyze message handled
      analysedSrc |-> <<0, 0>>, \* the source of the last frame analysed
      handled |-> 0,            \* analyze messages handled
      bare |-> 0,               \* analyze messages without data posted
      uploads |-> 0,            \* files uploaded so far
      lastDelivered |-> "none", \* type of the last response the hook received
      clock2 |-> 0,             \* the second run's clock
      frame1 |-> DEFAULT_AUDIO_DATA,    \* the first run's last frame
      frame2 |-> DEFAULT_AUDIO_DATA,    \* the second run's last frame
      odf |-> [len |-> 0, k |-> 1, rate |-> 0],  \* the last ODF history passed to detectBPM
      same |-> 0,               \* calls in a row that passed that history
      switches |-> 0,           \* times the history passed changed
      bpmBefore |-> <<>>,       \* bpmHistory before the last call
      scaled |-> <<>>,          \* what the call gives on the scaled histories
      tickPeriod |-> 0,         \* ms between two ticks of a playback
      keyInput |-> [kind |-> "none", root |-> 0],  \* the chroma last given to detectKey
      key |-> [key |-> "C", mode |-> "unknown", correlation |-> 0],  \* what detectKey returned
      silent |-> FALSE,         \* whether the last tick took the silence gate
      spectrum |-> FlatSpectrum(0),     \* the spectrum of the last tick
      yin |-> [ ran |-> FALSE, yb |-> <<>>, tau |-> -1, detector |-> NoDetector,
                pitch |-> [frequency |-> 0, probability |-> 0] ],  \* the last detectPitch call
      rhythm |-> [ ran |-> FALSE, risen |-> 0, exportedOdf |-> 0, retempo |-> FALSE,
                   tracking |-> FALSE,
                   out |-> [ primaryBPM |-> 0, bpmConfidence |-> 0, beatEvents |-> <<>>,
                             beatPhase |-> 0, isBeat |-> FALSE, onsetStrength |-> 0 ] ],
                                \* the last RhythmicEngine.analyze call
      beats |-> [ ran |-> FALSE, odfWindow |-> <<>>, targetPeriod |-> 0,
                  backpointers |-> <<>>, bestEnd |-> 0, beatIndices |-> <<>> ] ]
                                \* the last trackBeats call

\* the buffers a reset has to clear
EngineBuffers(e) ==
    [ odfHistory |-> e.odfHistory,
      bpmHistory |-> e.bpmDetector.bpmHistory,
      confidenceHistory |-> e.bpmDetector.confidenceHistory,
      bandEnvelope |-> e.bandEnvelope,
      energyEnvelope |-> e.energyEnvelope,
      transientState |-> e.transientState,
      prevNormalizedEnergy |-> e.prevNormalizedEnergy,
      dropIntensity |-> e.dropIntensity,
      lastDropTime |-> e.lastDropTime,
      chromaSmoothing |-> e.chromaSmoothing,
      prevFrequencies |-> e.prevFrequencies,
      noteHistory |-> e.timbreAnalyzer.noteHistory ]

---------------------------------------------------------------------------
(* The worker's message handler *)

\* what the handler does with the value analyze returned
Answered(id, r) ==
    [ st |-> r.st, threw |-> FALSE,
      responses |-> <<Response("result", id, r.frame)>>,
      silent |-> r.silent, dropTriggered |-> r.dropTriggered, zeroDiv |-> r.zeroDiv ]

\* Mutant: no try/catch around analyze: a throwing tick posts nothing.
onAnalyzeMessage_NoCatch(st, msg, now, perfNow) ==
    IF ~msg.hasData
    THEN [ st |-> st, threw |-> TRUE, responses |-> <<>>,
           silent |-> FALSE, dropTriggered |-> FALSE, zeroDiv |-> {} ]
    ELSE Answered(msg.id, analyze(st, msg.data, now, perfNow))

\* case 'analyze' of self.onmessage.  A message without data makes analyze
\* throw a TypeError at its first line (destructuring undefined), before any
\* state is written; the catch answers with an 'error' of the same id.
onAnalyzeMessage(st, msg, now, perfNow) ==
    IF ~msg.hasData
    THEN [ st |-> st, threw |-> TRUE,
           responses |-> <<Response("error", msg.id, "error.message")>>,
           silent |-> FALSE, dropTriggered |-> FALSE, zeroDiv |-> {} ]
    ELSE Answered(msg.id, analyze(st, msg.data, now, perfNow))

\* what is recorded about a handled analyze message
TickObservation(st, msg, r, prev) ==
    [ id |-> msg.id,
      kind |-> IF r.threw THEN "error" ELSE "result",
      silent |-> r.silent,
      firstOfSource |-> msg.hasData /\ msg.data.src # prev.analysedSrc,
      buffersFresh |-> EngineBuffers(st) = EngineBuffers(InitEngine),
      configured |-> st.selfYinDetector # NoDetector,
      selfYin |-> st.selfYinDetector,
      yinUsed |-> IF r.threw \/ r.silent THEN NoDetector ELSE st.yinDetector,
      triggered |-> r.dropTriggered,
      zeroDiv |-> r.zeroDiv,
      frame |-> IF r.threw THEN DEFAULT_AUDIO_DATA ELSE r.responses[1].data,
      storedDrop |-> r.st.dropIntensity,
      storedBefore |-> st.dropIntensity,
      peak |-> IF msg.hasData THEN MaxOf(msg.data.frequencies, 0, NBins - 1) ELSE -1,
      prevKind |-> prev.tick.kind,
      prevReported |-> prev.tick.frame.dropIntensity,
      yinShort |-> msg.hasData /\ ~r.silent
                   /\ Len(Float32Waveform(msg.data.waveform)) < st.yinDetector.bufferSize ]

WorkerAlive == hook.workerRef \in workers

WorkerInit ==
    /\ WorkerAlive
    /\ inbox # <<>>
    /\ Head(inbox).type = "init"
    /\ inbox' = Tail(inbox)
    /\ outbox' = Append(outbox, Response("ready", Head(inbox).id, "undefined"))
    /\ UNCHANGED <<audioSrc, audioSource, hook, workers, eng, clock, obs, eng2, rhythmic>>

\* case 'updateConfig': the rebuilt detector is stored in the property
\* self.yinDetector; the module's const yinDetector is a different binding
updateConfig(st, data) ==
    [st EXCEPT !.realSampleRate = data.sampleRate,
               !.selfYinDetector = ReconfiguredYIN(data.sampleRate)]

WorkerUpdateConfig ==
    /\ WorkerAlive
    /\ inbox # <<>>
    /\ Head(inbox).type = "updateConfig"
    /\ inbox' = Tail(inbox)
    /\ eng' = IF Head(inbox).hasData THEN updateConfig(eng, Head(inbox).data) ELSE eng
    /\ outbox' = Append(outbox, Response("ready", Head(inbox).id, "undefined"))
    /\ UNCHANGED <<audioSrc, audioSource, hook, workers, clock, obs, eng2, rhythmic>>

\* the worker's state after the handler ran on msg with outcome r
Handled(msg, r) ==
    /\ eng' = r.st
    /\ inbox' = Tail(inbox)
    /\ outbox' = outbox \o r.responses
    /\ obs' = [obs EXCEPT !.tick = TickObservation(eng, msg, r, obs),
                          !.analysedSrc = IF msg.hasData THEN msg.data.src ELSE @,
                          !.handled = @ + 1,
                          !.dropTimes = IF r.dropTriggered
                                        THEN Append(@, DateNow(clock)) ELSE @]

WorkerAnalyze ==
    /\ WorkerAlive
    /\ inbox # <<>>
    /\ Head(inbox).type = "analyze"
    /\ Handled(Head(inbox), onAnalyzeMessage(eng, Head(inbox), DateNow(clock), clock))
    /\ UNCHANGED <<audioSrc, audioSource, hook, workers, clock, eng2, rhythmic>>

---------------------------------------------------------------------------
(* useAudioAnalyzer and the App around it *)

MaxWorkers == 2        \* workers the page may create
MaxQueue == 2          \* messages waiting in the worker's queue

InitHook ==
    [ audioData |-> DEFAULT_AUDIO_DATA,
      workerRef |-> 0,            \* 0: null
      audioContext |-> 0,         \* the context's sample rate, 0: null
      analyser |-> FALSE,
      animation |-> FALSE,        \* a requestAnimationFrame callback is pending
      messageId |-> 0,
      lastAnalysisTime |-> 0,
      cleanup |-> FALSE,          \* the effect returned its cleanup function
      created |-> 0,              \* workers constructed so far
      mounted |-> TRUE ]

\* the cleanup function returned by the effect
EffectCleanup(h) == [h EXCEPT !.animation = FALSE, !.cleanup = FALSE]

\* The effect body, run for element el on the hook record h with live workers
\* ws; ctxOk and connOk say whether creating the AudioContext and connecting
\* the element succeed.  Either failure returns without a cleanup function;
\* a connect failure happens after the worker was created and sent 'init'.
EffectBody(el, h, ws, e, ib, ob, ctxOk, connOk, rate) ==
    IF el = 0 \/ ~ctxOk
    THEN [ hook |-> h, workers |-> ws, eng |-> e, inbox |-> ib, outbox |-> ob ]
    ELSE LET w == h.created + 1
             h1 == [h EXCEPT !.audioContext = rate, !.analyser = TRUE,
                             !.workerRef = w, !.created = w,
                             !.messageId = @ + 1]
             init == Message("init", h.messageId, FALSE, NoData)
             conf == Message("updateConfig", h1.messageId, TRUE,
                             [NoData EXCEPT !.sampleRate = rate])
         IN  IF ~connOk
             THEN [ hook |-> h1, workers |-> ws \cup {w}, eng |-> InitEngine,
                    inbox |-> <<init>>, outbox |-> <<>> ]
             ELSE [ hook |-> [h1 EXCEPT !.messageId = @ + 1, !.animation = TRUE,
                                        !.cleanup = TRUE],
                    workers |-> ws \cup {w}, eng |-> InitEngine,
                    inbox |-> <<init, conf>>, outbox |-> <<>> ]

\* React re-running the effect because audioSource changed to el: the
\* previous run's cleanup first, if it returned one.  terminate() destroys
\* the worker's module state and whatever is still queued to or from it.
RerunEffect(el, ctxOk, connOk, rate) ==
    IF hook.cleanup
    THEN EffectBody(el, EffectCleanup(hook), workers \ {hook.workerRef},
                    InitEngine, <<>>, <<>>, ctxOk, connOk, rate)
    ELSE EffectBody(el, hook, workers, eng, inbox, outbox, ctxOk, connOk, rate)

\* App.handleFileUpload: the new file's URL is assigned to the src of the one
\* <audio> element.  The element (the hook's audioSource) stays the same
\* object, so the effect runs only when the element is first seen.
HandleFileUpload(file, ctxOk, connOk, rate) ==
    /\ hook.mounted
    /\ file = obs.uploads + 1
    /\ audioSrc' = file
    /\ obs' = [obs EXCEPT !.uploads = file]
    /\ IF audioSource = 0
       THEN LET r == RerunEffect(1, ctxOk, connOk, rate)
            IN  /\ hook.created < MaxWorkers
                /\ hook.messageId + 2 <= MaxMessages
                /\ audioSource' = 1
                /\ hook' = r.hook /\ workers' = r.workers /\ eng' = r.eng
                /\ inbox' = r.inbox /\ outbox' = r.outbox
       ELSE UNCHANGED <<audioSource, hook, workers, eng, inbox, outbox>>
    /\ UNCHANGED <<clock, eng2, rhythmic>>

\* the hook is handed a different element, which plays its own media (src 0)
ChangeAudioSource(el, ctxOk, connOk, rate) ==
    /\ hook.mounted
    /\ audioSource # 0
    /\ el # audioSource
    /\ hook.created < MaxWorkers
    /\ hook.messageId + 2 <= MaxMessages
    /\ LET r == RerunEffect(el, ctxOk, connOk, rate)
       IN  /\ audioSource' = el
           /\ audioSrc' = 0
           /\ hook' = r.hook /\ workers' = r.workers /\ eng' = r.eng
           /\ inbox' = r.inbox /\ outbox' = r.outbox
           /\ obs' = IF r.workers # workers
                     THEN [obs EXCEPT !.tick = NoTick] ELSE obs
    /\ UNCHANGED <<clock, eng2, rhythmic>>

Unmount ==
    /\ hook.mounted
    /\ hook' = [(IF hook.cleanup THEN EffectCleanup(hook) ELSE hook) EXCEPT !.mounted = FALSE]
    /\ workers' = IF hook.cleanup THEN workers \ {hook.workerRef} ELSE workers
    /\ eng' = IF hook.cleanup THEN InitEngine ELSE eng
    /\ inbox' = IF hook.cleanup THEN <<>> ELSE inbox
    /\ outbox' = IF hook.cleanup THEN <<>> ELSE outbox
    /\ obs' = IF hook.cleanup THEN [obs EXCEPT !.tick = NoTick] ELSE obs
    /\ UNCHANGED <<audioSrc, audioSource, clock, eng2, rhythmic>>

\* the requestAnimationFrame callback `analyze`, dt ms after the last one
AnimationFrame(dt, capture) ==
    /\ hook.mounted
    /\ hook.animation
    /\ clock + dt <= MaxClock
    /\ clock' = clock + dt
    /\ IF clock' - hook.lastAnalysisTime > 33
       THEN /\ hook.messageId < MaxMessages
            /\ Len(inbox) < MaxQueue
            /\ inbox' = Append(inbox,
                   Message("analyze", hook.messageId, TRUE,
                           [ frequencies |-> capture.frequencies,
                             waveform |-> capture.waveform,
                             sampleRate |-> hook.audioContext,
                             src |-> <<audioSource, audioSrc>> ]))
            /\ hook' = [hook EXCEPT !.messageId = @ + 1, !.lastAnalysisTime = clock']
       ELSE UNCHANGED <<inbox, hook>>
    /\ UNCHANGED <<audioSrc, audioSource, workers, eng, outbox, obs, eng2, rhythmic>>

\* an analyze message whose data is missing
PostBareAnalyze ==
    /\ WorkerAlive
    /\ obs.bare < MaxBare
    /\ Len(inbox) < MaxQueue
    /\ inbox' = Append(inbox, Message("analyze", 0 - (obs.bare + 1), FALSE, NoData))
    /\ obs' = [obs EXCEPT !.bare = @ + 1]
    /\ UNCHANGED <<audioSrc, audioSource, hook, workers, eng, outbox, clock, eng2, rhythmic>>

\* workerRef.current.onmessage: only 'result' touches audioData
onmessage(h, response) ==
    IF response.type = "result" THEN [h EXCEPT !.audioData = response.data] ELSE h

HookOnMessage ==
    /\ hook.mounted
    /\ WorkerAlive
    /\ outbox # <<>>
    /\ hook' = onmessage(hook, Head(outbox))
    /\ outbox' = Tail(outbox)
    /\ obs' = [obs EXCEPT !.lastDelivered = Head(outbox).type]
    /\ UNCHANGED <<audioSrc, audioSource, workers, eng, inbox, clock, eng2, rhythmic>>

Init ==
    /\ audioSrc = 0
    /\ audioSource = 0
    /\ hook = InitHook
    /\ workers = {}
    /\ eng = InitEngine
    /\ inbox = <<>>
    /\ outbox = <<>>
    /\ clock = 0
    /\ obs = InitObs
    /\ eng2 = InitEngine
    /\ rhythmic = InitRhythmic

Next ==
    \/ \E f \in Files, ctxOk \in BOOLEAN, connOk \in BOOLEAN, r \in SampleRates :
          HandleFileUpload(f, ctxOk, connOk, r)
    \/ \E el \in Elements, ctxOk \in BOOLEAN, connOk \in BOOLEAN, r \in SampleRates :
          ChangeAudioSource(el, ctxOk, connOk, r)
    \/ Unmount
    \/ \E dt \in FrameDeltas, c \in Captures : AnimationFrame(dt, c)
    \/ PostBareAnalyze
    \/ WorkerInit
    \/ WorkerUpdateConfig
    \/ WorkerAnalyze
    \/ HookOnMessage

Spec == Init /\ [][Next]_vars

---------------------------------------------------------------------------
(* calculateDynamicValue on its own: any values in [0,1], one envelope *)

EnvelopeValues == {0, Frac(5, 100), Frac(15, 100), Frac(1, 2), Scale}

EnvelopeUpdated(value, r) ==
    /\ eng' = [eng EXCEPT !.energyEnvelope = r.envelope]
    /\ obs' = [obs EXCEPT !.calls = @ + 1, !.input = value, !.ret = r.value]

EnvelopeCall(value) ==
    /\ obs.calls < MaxCalls
    /\ EnvelopeUpdated(value, calculateDynamicValue(value, eng.energyEnvelope))
    /\ UNCHANGED <<audioSrc, audioSource, hook, workers, inbox, outbox, clock, eng2, rhythmic>>

NextEnvelope == \E value \in EnvelopeValues : EnvelopeCall(value)

SpecEnvelope == Init /\ [][NextEnvelope]_vars

---------------------------------------------------------------------------
(* detectDrop on its own: any normalized energies, any clock readings *)

EnergyLevels == {0, Frac(4, 10), Scale}
ClockReadings == {1000, 1400, 1500, 1501, 2001}

DropUpdated(now, r) ==
    /\ eng' = [eng EXCEPT !.prevNormalizedEnergy = r.prevNormalizedEnergy,
                          !.dropIntensity = r.dropIntensity,
                          !.lastDropTime = r.lastDropTime]
    /\ obs' = [obs EXCEPT !.calls = @ + 1, !.input = now, !.ret = r.dropIntensity,
                          !.dropTimes = IF r.triggered THEN Append(@, now) ELSE @]

DropCall(normalizedEnergy, now) ==
    /\ obs.calls < MaxCalls
    /\ DropUpdated(now, detectDrop(normalizedEnergy, now, eng))
    /\ UNCHANGED <<audioSrc, audioSource, hook, workers, inbox, outbox, clock, eng2, rhythmic>>

NextDrop == \E e \in EnergyLevels, now \in ClockReadings : DropCall(e, now)

SpecDrop == Init /\ [][NextDrop]_vars

---------------------------------------------------------------------------
(* Two engines fed the same inputs at different times *)

MaxReplay == 3         \* ticks in a replayed run

QuietSpectrum == FlatSpectrum(5)
ReplayCaptures == Captures \cup {[frequencies |-> QuietSpectrum, waveform |-> SquareWave]}
ReplayDeltas == {40, 600}

Replayed(data, dt, dt2, r1, r2) ==
    /\ eng' = r1.st
    /\ eng2' = r2.st
    /\ clock' = clock + dt
    /\ obs' = [obs EXCEPT !.calls = @ + 1, !.clock2 = @ + dt2,
                          !.frame1 = r1.frame, !.frame2 = r2.frame,
                          !.silent = r1.silent, !.spectrum = data.frequencies]

\* one input handled by both runs: by the first dt ms after its previous
\* tick, by the second dt2 ms after its previous tick
ReplayTick(data, dt, dt2) ==
    /\ obs.calls < MaxReplay
    /\ Replayed(data, dt, dt2,
                analyze(eng, data, DateNow(clock + dt), clock + dt),
                analyze(eng2, data, DateNow(obs.clock2 + dt2), obs.clock2 + dt2))
    /\ UNCHANGED <<audioSrc, audioSource, hook, workers, inbox, outbox, rhythmic>>

NextReplay ==
    \E c \in ReplayCaptures, rate \in SampleRates, dt2 \in ReplayDeltas :
        ReplayTick([frequencies |-> c.frequencies, waveform |-> c.waveform,
                    sampleRate |-> rate, src |-> <<1, 1>>], 40, dt2)

SpecReplay == Init /\ [][NextReplay]_vars

---------------------------------------------------------------------------
(* BPMDetector.detectBPM on its own: calls in any order on ODF histories   *)
(* that hold one peak every k ticks                                        *)

MaxSwitches == 1       \* times the history passed to detectBPM changes
OdfPeak == Frac(2, 10) \* height of a synthetic onset

\* an ODF history of len ticks with an onset every k ticks and zeros elsewhere
PeriodicOdf(len, k, peak) == [i \in 1 .. len |-> IF i % k = 0 THEN peak ELSE 0]

\* the arguments of a call: the history (its length and period) and the tick rate
OdfInputs ==
    { [len |-> 70,  k |-> 14, rate |-> 43],
      [len |-> 128, k |-> 14, rate |-> 43],
      [len |-> 130, k |-> 20, rate |-> 30],
      [len |-> 200, k |-> 36, rate |-> 43],
      [len |-> 128, k |-> 50, rate |-> 43] }

\* factors c = num / den by which a whole history is scaled
ScaleFactors == {<<1, 2>>, <<3, 1>>}

ScaleOdf(h, c) == [i \in 1 .. Len(h) |-> (h[i] * c[1]) \div c[2]]

\* the lag and the BPM detectBPM gives from detector state bd
LagAndBpm(r) == [lag |-> r.bd.lastBestLag, bpm |-> r.bpm]

BpmUpdated(input, h, r) ==
    /\ eng' = [eng EXCEPT !.bpmDetector = r.bd]
    /\ obs' = [obs EXCEPT !.calls = @ + 1,
                          !.odf = input,
                          !.ret = r.bpm,
                          !.same = IF input = obs.odf THEN @ + 1 ELSE 1,
                          !.switches = IF obs.calls > 0 /\ input # obs.odf THEN @ + 1 ELSE @,
                          !.bpmBefore = eng.bpmDetector.bpmHistory,
                          !.scaled = [c \in ScaleFactors |->
                                        LagAndBpm(detectBPM(ScaleOdf(h, c), input.rate,
                                                            eng.bpmDetector))]]

DetectCall(input, h) ==
    /\ obs.calls < MaxCalls
    /\ obs.calls = 0 \/ input = obs.odf \/ obs.switches < MaxSwitches
    /\ BpmUpdated(input, h, detectBPM(h, input.rate, eng.bpmDetector))
    /\ UNCHANGED <<audioSrc, audioSource, hook, workers, inbox, outbox, clock, eng2, rhythmic>>

NextBPM == \E input \in OdfInputs : DetectCall(input, PeriodicOdf(input.len, input.k, OdfPeak))

SpecBPM == Init /\ [][NextBPM]_vars

---------------------------------------------------------------------------
(* A long playback: the worker analyses one frame per tick period, with an *)
(* onset (the tone spectrum after the quiet one) every k ticks             *)

MaxTicks == 258        \* ticks of a playback
OnsetPeriods == {2, 20}

\* ms between two analyze messages: the hook posts one when more than 33 ms
\* have passed, on an animation frame of a 60 Hz or slower display
TickPeriods == {34, 50}

\* a spectrum with one peak, at bin 2
ToneSpectrum == [i \in Bins |-> IF i = 2 THEN 200 ELSE IF i \in {1, 3} THEN 60 ELSE 5]

Played(k, p, r) ==
    /\ eng' = r.st
    /\ clock' = clock + p
    /\ obs' = [obs EXCEPT !.calls = @ + 1,
                          !.odf = [len |-> Len(r.st.odfHistory), k |-> k, rate |-> ODF_SAMPLE_RATE],
                          !.tickPeriod = p,
                          !.frame1 = r.frame]

\* the tick of a playback with an onset every k ticks, p ms after the last
PlaybackTick(k, p) ==
    /\ obs.calls < MaxTicks
    /\ obs.calls = 0 \/ (k = obs.odf.k /\ p = obs.tickPeriod)
    /\ Played(k, p,
              analyze(eng,
                      [frequencies |-> IF obs.calls % k = 0 THEN ToneSpectrum ELSE QuietSpectrum,
                       waveform |-> SquareWave, sampleRate |-> 8000, src |-> <<1, 1>>],
                      DateNow(clock + p), clock + p))
    /\ UNCHANGED <<audioSrc, audioSource, hook, workers, inbox, outbox, eng2, rhythmic>>

NextPlayback == \E k \in OnsetPeriods, p \in TickPeriods : PlaybackTick(k, p)

SpecPlayback == Init /\ [][NextPlayback]_vars

---------------------------------------------------------------------------
(* TimbreAnalyzer.detectKey, called by analyzeMusicalContext on the chroma *)
(* of the tick                                                             *)

MaxKeyCalls == 2       \* ticks given to the key detector

\* a pure major triad on root r: r, r + 4 and r + 7 with equal weight
MajorTriad(r) ==
    [i \in PitchClasses |-> IF i \in {r % 12, (r + 4) % 12, (r + 7) % 12} THEN Scale \div 3 ELSE 0]

\* the major profile transposed so that its tonic weight sits at index r
TransposedMajor(r) == [i \in PitchClasses |-> MAJOR_PROFILE[((i + 12 - r) % 12) + 1]]

UniformChroma(v) == [i \in PitchClasses |-> v]

\* a pitchClass vector sums to 1 at most
UniformLevels == {0, Scale \div 24, Scale \div 12}

\* the chroma vectors handed over, each with what it is
KeyInputs ==
    { [kind |-> "triad", root |-> r, chroma |-> MajorTriad(r)] : r \in PitchClasses }
    \cup { [kind |-> "profile", root |-> r, chroma |-> TransposedMajor(r)] : r \in PitchClasses }
    \cup { [kind |-> "uniform", root |-> v, chroma |-> UniformChroma(v)] : v \in UniformLevels }

KeyAnalysed(input, mc, k) ==
    /\ eng' = [eng EXCEPT !.timbreAnalyzer = mc.ta]
    /\ obs' = [obs EXCEPT !.calls = @ + 1,
                          !.keyInput = [kind |-> input.kind, root |-> input.root],
                          !.key = k,
                          !.frame1 = [@ EXCEPT !.musicalContext = mc.musicalContext]]

\* analyzeMusicalContext on a tick whose pitchClass vector is input.chroma
KeyCall(input) ==
    /\ obs.calls < MaxKeyCalls
    /\ KeyAnalysed(input,
                   analyzeMusicalContext([dominantNote |-> NoNote, noteConfidence |-> 0,
                                          pitchClass |-> input.chroma],
                                         eng.timbreAnalyzer),
                   detectKey(input.chroma))
    /\ UNCHANGED <<audioSrc, audioSource, hook, workers, inbox, outbox, clock, eng2, rhythmic>>

NextKey == \E input \in KeyInputs : KeyCall(input)

SpecKey == Init /\ [][NextKey]_vars

---------------------------------------------------------------------------
(* A pure tone: ticks whose spectrum has energy only at the bin of A4      *)

MaxToneTicks == 3      \* ticks of the tone
ToneLevels == {50, 128, 255}

\* sample rates at which a bin of the spectrum is centred on 440 Hz
ToneRates == {7040, 14080}

\* the bin whose frequency i * binSize is 440 Hz
BinOfA4(sampleRate) == BinOf(440, sampleRate)

A4Spectrum(sampleRate, level) == [i \in Bins |-> IF i = BinOfA4(sampleRate) THEN level ELSE 0]

TonePlayed(r) ==
    /\ eng' = r.st
    /\ clock' = clock + 40
    /\ obs' = [obs EXCEPT !.calls = @ + 1, !.frame1 = r.frame]

ToneTick(sampleRate, level, waveform) ==
    /\ obs.calls < MaxToneTicks
    /\ TonePlayed(analyze(eng,
                          [frequencies |-> A4Spectrum(sampleRate, level), waveform |-> waveform,
                           sampleRate |-> sampleRate, src |-> <<1, 1>>],
                          DateNow(clock + 40), clock + 40))
    /\ UNCHANGED <<audioSrc, audioSource, hook, workers, inbox, outbox, eng2, rhythmic>>

NextTone ==
    \E sampleRate \in ToneRates, level \in ToneLevels, waveform \in {FlatWave, SquareWave} :
        ToneTick(sampleRate, level, waveform)

SpecTone == Init /\ [][NextTone]_vars

---------------------------------------------------------------------------
(* YINPitchDetector on its own: a detector with a short buffer, its        *)
(* threshold set through setThreshold and updateThreshold, given buffers   *)
(* that fill it                                                            *)

MaxYinCalls == 2       \* detectPitch calls on the detector
YinBufferSize == 16    \* bufferSize of the detector under test

\* one period of each test signal, in fixed point
YinPeriods ==
    { <<Scale, Scale, 0 - Scale, 0 - Scale>>,
      <<0, 8660, 8660, 0, 0 - 8660, 0 - 8660>>,
      <<0, 5000, 10000, 5000, 0, 0 - 5000, 0 - 10000, 0 - 5000>>,
      <<Scale, 0 - 3000, 6000, 0 - 9000, 2000>>,
      <<5000>> }

\* the buffer that repeats period and fades by fade per sample
YinBuffer(period, fade) ==
    [i \in 1 .. YinBufferSize |->
        Mul(period[((i - 1) % Len(period)) + 1], Scale - (i - 1) * fade)]

\* a buffer that rises by a constant step
YinRamp == [i \in 1 .. YinBufferSize |-> (i * Scale) \div YinBufferSize]

YinBuffers == {YinBuffer(p, f) : p \in YinPeriods, f \in {0, 300}} \cup {YinRamp}

YinThresholds == {0, Frac(1, 2), Scale}

\* new YINPitchDetector(44100, YinBufferSize)
YinConstruct ==
    /\ eng.yinDetector.bufferSize # YinBufferSize
    /\ eng' = [eng EXCEPT !.yinDetector = YINPitchDetector(44100, YinBufferSize, Frac(1, 10))]
    /\ UNCHANGED <<audioSrc, audioSource, hook, workers, inbox, outbox, clock, obs, eng2, rhythmic>>

YinSetThreshold(threshold) ==
    /\ eng.yinDetector.bufferSize = YinBufferSize
    /\ eng' = [eng EXCEPT !.yinDetector = setThreshold(@, threshold)]
    /\ UNCHANGED <<audioSrc, audioSource, hook, workers, inbox, outbox, clock, obs, eng2, rhythmic>>

YinUpdateThreshold(spectralFlux, volume) ==
    /\ eng.yinDetector.bufferSize = YinBufferSize
    /\ eng' = [eng EXCEPT !.yinDetector = updateThreshold(@, spectralFlux, volume)]
    /\ UNCHANGED <<audioSrc, audioSource, hook, workers, inbox, outbox, clock, obs, eng2, rhythmic>>

\* the normalized difference function detectPitch leaves in yinBuffer
YinBufferOf(yin, audioBuffer) ==
    calculateCumulativeMeanNormalizedDifference(
        calculateDifferenceFunction(audioBuffer, yin.bufferSize \div 2), yin.bufferSize \div 2)

YinDetected(ran, yb, r) ==
    obs' = [obs EXCEPT !.calls = @ + 1,
                       !.yin = [ ran |-> ran, yb |-> yb,
                                 tau |-> IF ran
                                         THEN getAbsoluteThreshold(yb, eng.yinDetector.bufferSize \div 2,
                                                                   eng.yinDetector)
                                         ELSE -1,
                                 detector |-> eng.yinDetector,
                                 pitch |-> [frequency |-> r.frequency,
                                            probability |-> r.probability] ]]

\* detectPitch(audioBuffer)
YinDetect(audioBuffer) ==
    /\ obs.calls < MaxYinCalls
    /\ YinDetected(Len(audioBuffer) >= eng.yinDetector.bufferSize,
                   IF Len(audioBuffer) >= eng.yinDetector.bufferSize
                   THEN YinBufferOf(eng.yinDetector, audioBuffer) ELSE <<>>,
                   detectPitch(eng.yinDetector, audioBuffer))
    /\ UNCHANGED <<audioSrc, audioSource, hook, workers, eng, inbox, outbox, clock, eng2, rhythmic>>

NextYin ==
    \/ YinConstruct
    \/ \E t \in YinThresholds : YinSetThreshold(t)
    \/ \E flux \in {0, Scale}, volume \in {0, Scale} : YinUpdateThreshold(flux, volume)
    \/ \E b \in YinBuffers : YinDetect(b)

SpecYin == Init /\ [][NextYin]_vars

---------------------------------------------------------------------------
(* RhythmicEngine.analyze on a few frames: any of a few spectra per frame, *)
(* the exported calculateRobustODF run beside it on the same energies      *)

MaxOnsetFrames == 3    \* frames analysed

\* silence, a full spectrum, and energy in the top, the bottom and the lower
\* half of the bins (one, one and two Mel bands)
OnsetSpectra ==
    { FlatSpectrum(0), FlatSpectrum(200),
      [i \in Bins |-> IF i >= 12 THEN 200 ELSE 0],
      [i \in Bins |-> IF i <= 2 THEN 200 ELSE 0],
      [i \in Bins |-> IF i <= 4 THEN 200 ELSE 0] }

\* the Mel bands whose energy is above the previous frame's
RisenBands(frequencies, prevMelEnergies) ==
    { i \in 1 .. MelBands :
        MelApply([j \in Bins |-> Magnitude(frequencies[j])], createFilterbank, MelBands)[i]
            > prevMelEnergies[i] }

Analyzed(frequencies, r, exported) ==
    /\ rhythmic' = r.st
    /\ clock' = clock + 1000 \div RE_ODF_SAMPLE_RATE
    /\ obs' = [obs EXCEPT !.calls = @ + 1,
                          !.rhythm = [ ran |-> TRUE,
                                       risen |-> Cardinality(RisenBands(frequencies,
                                                                        rhythmic.prevMelEnergies)),
                                       exportedOdf |-> exported.odf,
                                       retempo |-> r.retempo,
                                       tracking |-> r.tracking,
                                       out |-> r.out ]]

\* analyze(frequencies, currentTime), one frame every 1 / ODF_SAMPLE_RATE s
OnsetFrame(frequencies) ==
    /\ obs.calls < MaxOnsetFrames
    /\ Analyzed(frequencies,
                RhythmicEngine_analyze(rhythmic, frequencies,
                                       clock + 1000 \div RE_ODF_SAMPLE_RATE),
                calculateRobustODF(frequencies, rhythmic.prevMelEnergies,
                                   createFilterbank, MelBands))
    /\ UNCHANGED <<audioSrc, audioSource, hook, workers, eng, inbox, outbox, eng2>>

NextOnset == \E s \in OnsetSpectra : OnsetFrame(s)

SpecOnset == Init /\ [][NextOnset]_vars

---------------------------------------------------------------------------
(* RhythmicEngine.analyze on a long playback at ODF_SAMPLE_RATE frames a   *)
(* second: silence, a full spectrum every BeatEvery frames and a faint one *)
(* half way between two of them                                            *)

MaxRhythmFrames == 520 \* frames analysed
BeatEvery == 85        \* frames from one beat to the next

\* the spectrum of frame n of the playback
RhythmSpectrum(n) ==
    IF n % BeatEvery = 0 THEN FlatSpectrum(255)
    ELSE IF n % BeatEvery = BeatEvery \div 2 THEN FlatSpectrum(50)
    ELSE FlatSpectrum(0)

RhythmFrame ==
    /\ obs.calls < MaxRhythmFrames
    /\ Analyzed(RhythmSpectrum(obs.calls),
                RhythmicEngine_analyze(rhythmic, RhythmSpectrum(obs.calls),
                                       clock + 1000 \div RE_ODF_SAMPLE_RATE),
                calculateRobustODF(RhythmSpectrum(obs.calls), rhythmic.prevMelEnergies,
                                   createFilterbank, MelBands))
    /\ UNCHANGED <<audioSrc, audioSource, hook, workers, eng, inbox, outbox, eng2>>

NextRhythm == RhythmFrame

SpecRhythm == Init /\ [][NextRhythm]_vars

---------------------------------------------------------------------------
(* RhythmicEngine.trackBeats on its own: any short ODF window, a few       *)
(* target periods, whole and not                                           *)

MaxBeatCalls == 1      \* calls made
BeatWindowLen == 7     \* frames of the window

BeatOdfValues == {0, Scale \div 2, Scale}
BeatWindows == [1 .. BeatWindowLen -> BeatOdfValues]

\* target periods in hundredths of a frame
BeatPeriods == {125, 225, 250, 300}

TrackedBeats(odfWindow, targetPeriod, fw, beatIndices) ==
    obs' = [obs EXCEPT !.calls = @ + 1,
                       !.beats = [ ran |-> TRUE,
                                   odfWindow |-> odfWindow,
                                   targetPeriod |-> targetPeriod,
                                   backpointers |-> fw.backpointers,
                                   bestEnd |-> trackBeats_bestEnd(fw.scores, targetPeriod),
                                   beatIndices |-> beatIndices ]]

\* trackBeats(odfWindow, targetPeriod)
TrackBeatsCall(odfWindow, targetPeriod) ==
    /\ obs.calls < MaxBeatCalls
    /\ TrackedBeats(odfWindow, targetPeriod,
                    trackBeats_forward(odfWindow, targetPeriod, Frac(7, 10)),
                    trackBeats(odfWindow, targetPeriod, Frac(7, 10)))
    /\ UNCHANGED <<audioSrc, audioSource, hook, workers, eng, inbox, outbox, clock, eng2, rhythmic>>

NextBeats == \E w \in BeatWindows, p \in BeatPeriods : TrackBeatsCall(w, p)

SpecBeats == Init /\ [][NextBeats]_vars

---------------------------------------------------------------------------
(* Properties *)

\* C1: a tick whose spectrum peaks below the silence floor of 5 (all-zero
\* included) returns a frame with volume 0, energy 0, bpm 0, mode 'unknown'
\* and all four transient flags false, whatever ticks came before.
C1_SilentTickIsNeutral ==
    (obs.tick.kind = "result" /\ obs.tick.peak < 5) =>
        /\ obs.tick.frame.volume = 0
        /\ obs.tick.frame.energy = 0
        /\ obs.tick.frame.rhythmicFeatures.bpm = 0
        /\ obs.tick.frame.musicalContext.mode = "unknown"
        /\ ~obs.tick.frame.transients.bass
        /\ ~obs.tick.frame.transients.mid
        /\ ~obs.tick.frame.transients.treble
        /\ ~obs.tick.frame.transients.overall

\* a spectrum that is not all zero but below the floor, with a loud
\* waveform, analysed after an audible tick has filled the buffers
C1_Witness ==
    /\ obs.tick.kind = "result"
    /\ obs.tick.peak \in 1 .. 4
    /\ ~obs.tick.buffersFresh
    /\ obs.tick.frame.volume = 0
    /\ obs.tick.frame.dropIntensity > 0

\* C2: after any calls of calculateDynamicValue with values in [0,1] on an
\* envelope that starts at {min 0.1, max 0.2}: 0 <= min <= max - 0.1 <= 1,
\* and every returned value is in [0,1].
C2_EnvelopeBounded ==
    /\ 0 <= eng.energyEnvelope.min
    /\ eng.energyEnvelope.min <= eng.energyEnvelope.max - Frac(1, 10)
    /\ eng.energyEnvelope.max - Frac(1, 10) <= Scale
    /\ obs.calls > 0 => (0 <= obs.ret /\ obs.ret <= Scale)

\* after several calls the decayed maximum is held up by the floor
\* min + 0.1, and the call returned a value strictly inside (0,1)
C2_Witness ==
    /\ obs.calls >= 2
    /\ eng.energyEnvelope.min > Frac(1, 10)
    /\ eng.energyEnvelope.max = eng.energyEnvelope.min + Frac(1, 10)
    /\ 0 < obs.ret /\ obs.ret < Scale

\* C3: the first frame analysed for a new audio source (a new file loaded
\* into the player, or a different element) is computed with every engine
\* buffer at its initial value.
C3_FirstFrameOfSourceFresh ==
    obs.tick.firstOfSource => obs.tick.buffersFresh

\* C4: two runs from fresh engine state that receive the same inputs in the
\* same order produce the same frames, whatever the times of their ticks.
C4_ReplayFramesEqual ==
    obs.frame1 = obs.frame2

\* C5: every analyze message the worker handles is answered by exactly one
\* response, appended after the earlier ones, with the message's id: an
\* 'error' when the tick threw and a 'result' otherwise; the worker stays
\* alive.
C5_OneAnswerPerAnalyze ==
    [][ obs'.handled = obs.handled + 1 =>
          /\ Len(outbox') = Len(outbox) + 1
          /\ SubSeq(outbox', 1, Len(outbox)) = outbox
          /\ outbox'[Len(outbox')].id = Head(inbox).id
          /\ outbox'[Len(outbox')].type = (IF Head(inbox).hasData THEN "result" ELSE "error")
          /\ inbox' = Tail(inbox)
          /\ hook'.workerRef \in workers' ]_vars

\* a tick answered with a result right after one answered with an error
C5_Witness ==
    /\ obs.tick.kind = "result"
    /\ obs.tick.prevKind = "error"
    /\ Len(outbox) >= 2
    /\ outbox[Len(outbox)].id = obs.tick.id
    /\ outbox[Len(outbox) - 1].type = "error"

\* C6: once the worker's 'error' reply has been delivered, the frame the hook
\* exposes is the neutral default frame.
C6_ErrorResetsFrame ==
    obs.lastDelivered = "error" => hook.audioData = DEFAULT_AUDIO_DATA

\* C7: any two ticks on which the drop detector triggers are more than the
\* 500 ms cooldown apart.
C7_TriggersBeyondCooldown ==
    \A i, j \in 1 .. Len(obs.dropTimes) :
        i < j => obs.dropTimes[j] - obs.dropTimes[i] > 500

\* two triggers, the second as early as the cooldown lets it be
C7_Witness ==
    /\ Len(obs.dropTimes) >= 2
    /\ obs.dropTimes[2] - obs.dropTimes[1] = 501

\* C8: on every tick that does not trigger, silent ticks included, the stored
\* dropIntensity is multiplied by the decay factor 0.95.
C8_DecayOnEveryTick ==
    (obs.tick.kind = "result" /\ ~obs.tick.triggered) =>
        obs.tick.storedDrop = Mul(obs.tick.storedBefore, Frac(95, 100))

\* C9: on a non-silent tick no division by zero is evaluated and the
\* dominant frequency of the frame is a finite number.
C9_NoZeroDivisor ==
    (obs.tick.kind = "result" /\ ~obs.tick.silent) =>
        /\ obs.tick.zeroDiv = {}
        /\ IsFinite(obs.tick.frame.melodicFeatures.dominantFrequency)

\* C10: once updateConfig has been handled, a tick's pitch detection runs on
\* the detector that updateConfig built.
C10_TicksUseReconfiguredYin ==
    (obs.tick.kind = "result" /\ ~obs.tick.silent /\ obs.tick.configured) =>
        obs.tick.yinUsed = obs.tick.selfYin

\* C11: every analyze message of the capture hook carries a waveform at least
\* as long as the pitch detector's buffer, so a live tick's detectPitch never
\* takes its undersized-input early return.
C11_WaveformFillsYinBuffer ==
    (obs.tick.kind = "result" /\ ~obs.tick.silent) => ~obs.tick.yinShort

\* C13: detectBPM returns 0 whenever the ODF history passed to it holds fewer
\* than 128 samples, whatever calls came before.
C13_ShortHistoryGivesZero ==
    (obs.calls > 0 /\ obs.odf.len < 128) => obs.ret = 0

C15_ScaleInvariant ==
    obs.calls > 0 =>
        \A c \in ScaleFactors :
            /\ obs.scaled[c].lag = eng.bpmDetector.lastBestLag
            /\ obs.scaled[c].bpm = obs.ret

\* a call that found the lag of the period and reports its BPM, on the
\* history and on the history halved and tripled
C15_Witness ==
    /\ obs.calls >= 5
    /\ obs.odf.len >= 128
    /\ eng.bpmDetector.lastBestLag = obs.odf.k
    /\ obs.ret > 0
    /\ \A c \in ScaleFactors : obs.scaled[c] = [lag |-> obs.odf.k, bpm |-> obs.ret]

\* the j-th smallest entry of a non-empty sequence
KthSmallest(s, j) ==
    CHOOSE v \in {s[i] : i \in 1 .. Len(s)} :
        /\ Cardinality({i \in 1 .. Len(s) : s[i] < v}) <= j - 1
        /\ Cardinality({i \in 1 .. Len(s) : s[i] > v}) <= Len(s) - j

\* whether some lag of detectBPM's search range is a strict local maximum of acf
PeakInSearchRange(acf, sampleRate) ==
    \E lag \in ((sampleRate * 60) \div 190) .. ((sampleRate * 60 + 69) \div 70) :
        /\ lag > 0 /\ lag < Len(acf) - 1
        /\ acf[lag + 1] > acf[lag] /\ acf[lag + 1] > acf[lag + 2]

FifoStep(old, new, cap) ==
    \/ new = old
    \/ Len(old) < cap /\ Len(new) = Len(old) + 1 /\ SubSeq(new, 1, Len(old)) = old
    \/ Len(old) = cap /\ Len(new) = cap /\ SubSeq(new, 1, cap - 1) = Tail(old)

\* C12: across every tick each rolling history is a bounded FIFO that evicts
\* its oldest entry first: ODF history at most 256 entries, BPM history 15,
\* confidence history 10, note and chroma histories 30, and each transient
\* history exactly 10.
C12_HistoriesBoundedFifo ==
    [][ obs'.calls = obs.calls + 1 =>
          /\ Len(eng'.odfHistory) <= 256
          /\ FifoStep(eng.odfHistory, eng'.odfHistory, 256)
          /\ Len(eng'.bpmDetector.bpmHistory) <= 15
          /\ FifoStep(eng.bpmDetector.bpmHistory, eng'.bpmDetector.bpmHistory, 15)
          /\ Len(eng'.bpmDetector.confidenceHistory) <= 10
          /\ FifoStep(eng.bpmDetector.confidenceHistory, eng'.bpmDetector.confidenceHistory, 10)
          /\ Len(eng'.timbreAnalyzer.noteHistory) <= 30
          /\ FifoStep(eng.timbreAnalyzer.noteHistory, eng'.timbreAnalyzer.noteHistory, 30)
          /\ Len(eng'.timbreAnalyzer.chromaHistory) <= 30
          /\ FifoStep(eng.timbreAnalyzer.chromaHistory, eng'.timbreAnalyzer.chromaHistory, 30)
          /\ \A b \in {"bass", "mid", "treble", "overall"} :
                /\ Len(eng'.transientState[b].history) = 10
                /\ SubSeq(eng'.transientState[b].history, 1, 9)
                     = Tail(eng.transientState[b].history) ]_vars

\* more ticks than the longest history holds: every history is at its cap
C12_Witness ==
    /\ obs.calls > 256
    /\ Len(eng.odfHistory) = 256
    /\ Len(eng.bpmDetector.bpmHistory) = 15
    /\ Len(eng.bpmDetector.confidenceHistory) = 10
    /\ Len(eng.timbreAnalyzer.noteHistory) = 30
    /\ Len(eng.timbreAnalyzer.chromaHistory) = 30

\* C19: the tick rate the worker converts a lag with is the rate at which the
\* hook's ticks reach it, so onsets every k ticks are reported at the BPM of
\* their real period: within 1 BPM of 60000 / (k * tick period in ms).
C19_BpmOfRealPeriod ==
    (obs.tickPeriod > 0 /\ obs.odf.k = 20 /\ obs.frame1.rhythmicFeatures.bpm > 0) =>
        /\ obs.frame1.rhythmicFeatures.bpm * obs.odf.k * obs.tickPeriod - 600000
              <= 10 * obs.odf.k * obs.tickPeriod
        /\ 600000 - obs.frame1.rhythmicFeatures.bpm * obs.odf.k * obs.tickPeriod
              <= 10 * obs.odf.k * obs.tickPeriod

\* C16: detectKey given a pure C-major triad returns key 'C' and mode
\* 'major' with correlation at least 0.6; given a uniform chroma it returns
\* mode 'unknown'.
C16_TriadOfCAndUniform ==
    /\ (obs.keyInput.kind = "triad" /\ obs.keyInput.root = 0) =>
          /\ obs.key.key = "C"
          /\ obs.key.mode = "major"
          /\ obs.key.correlation >= Frac(6, 10)
          /\ obs.frame1.musicalContext.key = "C"
          /\ obs.frame1.musicalContext.mode = "major"
    /\ obs.keyInput.kind = "uniform" =>
          /\ obs.key.mode = "unknown"
          /\ obs.frame1.musicalContext.mode = "unknown"

\* the triad of C analysed after another chroma: C major, with a
\* correlation between the threshold and 1
C16_Witness ==
    /\ obs.calls = 2
    /\ obs.keyInput = [kind |-> "triad", root |-> 0]
    /\ obs.key.key = "C" /\ obs.key.mode = "major"
    /\ obs.key.correlation > Frac(8, 10) /\ obs.key.correlation < Frac(9, 10)

\* C17: a chroma equal to the major profile transposed to root r, or a pure
\* major triad on r, is reported with the name of pitch class r and mode
\* 'major' (the reference vector labelled r has its tonic weight at index r).
C17_KeyNamesTheRoot ==
    obs.keyInput.kind \in {"triad", "profile"} =>
        /\ obs.key.key = NOTE_NAMES[obs.keyInput.root + 1]
        /\ obs.key.mode = "major"
        /\ rotateArray(MAJOR_PROFILE, obs.keyInput.root)[obs.keyInput.root] = MAJOR_PROFILE[1]

\* C18: on every non-silent tick whose spectrum has energy only at the bin of
\* A4, the first ticks after engine start included, the frame's pitchClass
\* vector has its maximum at index 9 ('A') and its 12 entries sum to 1.
C18_ChromaOfA4 ==
    obs.calls > 0 =>
        LET pc == obs.frame1.melodicFeatures.pitchClass
        IN  /\ \A i \in PitchClasses : i # 9 => pc[i] < pc[9]
            /\ SumFn(pc, 0, 11) >= Scale - 20
            /\ SumFn(pc, 0, 11) <= Scale + 20

\* C22: on every non-silent tick and for each band, the value of the tick is
\* pushed on the band's 10-entry history, the transient flag is true exactly
\* when the value exceeds both max(band floor, mean of that history *
\* multiplier) and the running value as it was before the tick * multiplier,
\* and the running value becomes old * decay + value * (1 - decay) whether
\* or not the flag fired.
C22_TransientRule ==
    [][ (obs'.calls = obs.calls + 1 /\ ~obs'.silent) =>
          \A b \in {"bass", "mid", "treble", "overall"} :
             LET config == TRANSIENT_CONFIG[b]
                 value == IF b = "overall" THEN obs'.frame1.energy ELSE obs'.frame1.bands[b]
                 before == eng.transientState[b]
                 after == eng'.transientState[b]
             IN  /\ after.history = Append(Tail(before.history), value)
                 /\ obs'.frame1.transients[b] <=>
                       /\ value > Max2(config.threshold,
                                       Mul(SumSeq(after.history) \div 10, config.multiplier))
                       /\ value > Mul(before.value, config.multiplier)
                 /\ after.value = Mul(before.value, config.decay)
                                    + Mul(value, Scale - config.decay) ]_vars

\* a non-silent tick after an earlier one, on which one band fired and
\* another, above zero, did not
C22_Witness ==
    /\ obs.calls > 1
    /\ ~obs.silent
    /\ \E b \in {"bass", "mid", "treble"} : obs.frame1.transients[b]
    /\ \E b \in {"bass", "mid", "treble"} :
          ~obs.frame1.transients[b] /\ obs.frame1.bands[b] > 0
    /\ \E b \in {"bass", "mid", "treble"} :
          eng.transientState[b].value > 0 /\ eng.transientState[b].history[9] > 0

\* C26: a tick appends its dominant note to the note history only when the
\* note confidence exceeds 0.3 and a note is present; on any other tick the
\* note history is left unchanged.
C26_NoteRecordedWhenConfident ==
    [][ obs'.calls = obs.calls + 1 =>
          LET mf == obs'.frame1.melodicFeatures
              before == eng.timbreAnalyzer.noteHistory
              after == eng'.timbreAnalyzer.noteHistory
          IN  IF mf.noteConfidence > Frac(3, 10) /\ mf.dominantNote # NoNote
              THEN after = PushCapped(before, mf.dominantNote, TIMBRE_historySize)
              ELSE after = before ]_vars

\* C27: after every analyze tick the cached previous spectrum equals that
\* tick's normalized magnitude spectrum in every bin.
C27_CacheIsLastSpectrum ==
    obs.calls > 0 =>
        \A i \in Bins :
            /\ i \in DOMAIN eng.prevFrequencies
            /\ eng.prevFrequencies[i] = Magnitude(obs.spectrum[i])

\* C28: getAbsoluteThreshold scans tau from 2.  If some tau is below the
\* active threshold, it returns, for the first such tau, the end of the
\* strictly decreasing run that starts there.  If none is, it returns the
\* tau of the minimum of the scanned values when that minimum is below 0.8,
\* and -1 otherwise.
C28_ThresholdThenLocalMinimum ==
    obs.yin.ran =>
        LET yb == obs.yin.yb
            W == obs.yin.detector.bufferSize \div 2
            r == obs.yin.tau
            threshold == IF obs.yin.detector.adaptiveThreshold # 0
                         THEN obs.yin.detector.adaptiveThreshold
                         ELSE obs.yin.detector.threshold
            below == {t \in 2 .. (W - 1) : JsLess(yb[t], threshold)}
            scanned == {t \in 2 .. (W - 1) : yb[t] # NaN}
        IN  IF below # {}
            THEN LET first == CHOOSE t \in below : \A u \in below : t <= u
                 IN  /\ r \in first .. (W - 1)
                     /\ \A t \in first .. (r - 1) : JsLess(yb[t + 1], yb[t])
                     /\ r + 1 < W => ~JsLess(yb[r + 1], yb[r])
            ELSE IF \E t \in scanned : yb[t] < Frac(8, 10)
            THEN /\ r \in scanned
                 /\ \A u \in scanned : yb[r] <= yb[u] /\ (yb[u] = yb[r] => r <= u)
            ELSE r = -1

\* a call that crossed the threshold and walked down to a later tau
C28_Witness ==
    /\ obs.yin.ran
    /\ obs.yin.tau > 2
    /\ \E t \in 2 .. (obs.yin.tau - 1) :
          JsLess(obs.yin.yb[t], obs.yin.detector.adaptiveThreshold)
    /\ obs.yin.pitch.frequency > 0

\* C30: under any sequence of source changes, unmounts and failures to
\* create the context or connect the source, at most one analysis worker is
\* alive at any time, and none once the hook is unmounted.
C30_AtMostOneWorker ==
    /\ Cardinality(workers) <= 1
    /\ ~hook.mounted => workers = {}

\* C21: calculateRobustODF, the engine's and the exported one, returns a
\* non-zero onset value only when more than half of the Mel bands rose since
\* the previous frame.
C21_OnsetNeedsMostBands ==
    obs.rhythm.ran =>
        /\ obs.rhythm.out.onsetStrength # 0 => 2 * obs.rhythm.risen > MelBands
        /\ obs.rhythm.exportedOdf # 0 => 2 * obs.rhythm.risen > MelBands

RECURSIVE BeatChain(_, _)
\* the backpointer chain from frame current back to its first frame: frame 0
\* or a frame for which the forward pass found no predecessor
BeatChain(backpointers, current) ==
    IF current = 0 \/ backpointers[current + 1] < 0 THEN <<current>>
    ELSE Append(BeatChain(backpointers, backpointers[current + 1]), current)

\* C23: trackBeats returns, in strictly increasing order, every frame of the
\* backpointer chain from the best ending frame back to the chain's first
\* frame.
C23_WholeChainReturned ==
    obs.beats.ran =>
        /\ \A n \in 1 .. Len(obs.beats.beatIndices) - 1 :
               obs.beats.beatIndices[n] < obs.beats.beatIndices[n + 1]
        /\ obs.beats.beatIndices = BeatChain(obs.beats.backpointers, obs.beats.bestEnd)

\* C24: two consecutive frames of the sequence trackBeats returns are at
\* least half a target period and at most two target periods apart.
C24_BeatSpacing ==
    obs.beats.ran =>
        \A n \in 1 .. Len(obs.beats.beatIndices) - 1 :
            LET d == obs.beats.beatIndices[n + 1] - obs.beats.beatIndices[n]
            IN  200 * d >= obs.beats.targetPeriod /\ 100 * d <= 2 * obs.beats.targetPeriod

\* Three beats returned for a target period that is not whole, the last one
\* a frame whose search for a predecessor reached further back than two
\* periods.
C24_Witness ==
    /\ obs.beats.ran
    /\ Len(obs.beats.beatIndices) >= 3
    /\ obs.beats.targetPeriod % 100 # 0
    /\ LET t == obs.beats.beatIndices[Len(obs.beats.beatIndices)]
       IN  100 * (t - MinPrev(t, obs.beats.targetPeriod)) > 2 * obs.beats.targetPeriod

\* C25: after a tempo re-estimation that yields a validated candidate,
\* tempoCandidates is in descending order of confidence and primaryBPM is
\* the BPM of the most confident candidate.
C25_PrimaryIsMostConfident ==
    (obs.rhythm.ran /\ obs.rhythm.retempo /\ rhythmic.tempoCandidates # <<>>) =>
        /\ \A n \in 1 .. Len(rhythmic.tempoCandidates) - 1 :
               rhythmic.tempoCandidates[n].confidence
                   >= rhythmic.tempoCandidates[n + 1].confidence
        /\ \E n \in 1 .. Len(rhythmic.tempoCandidates) :
               /\ rhythmic.tempoCandidates[n].bpm = rhythmic.primaryBPM
               /\ \A k \in 1 .. Len(rhythmic.tempoCandidates) :
                      rhythmic.tempoCandidates[k].confidence
                          <= rhythmic.tempoCandidates[n].confidence

\* C29: beat tracking runs: a call of analyze made with a primary tempo and
\* with the ODF history as long as it gets, ODF_HISTORY_SIZE values, takes
\* the beat tracking branch.
C29_BeatTrackingRuns ==
    /\ Len(rhythmic.odfHistory) <= RE_ODF_HISTORY_SIZE
    /\ (obs.rhythm.ran /\ rhythmic.primaryBPM > 0
           /\ Len(rhythmic.odfHistory) = RE_ODF_HISTORY_SIZE)
        => obs.rhythm.tracking

=============================================================================
